---- MODULE Spec2Model ----
(***************************************************************************)
(* Model of pwgen's generation engine: the pattern builder (structured     *)
(* options and the pattern DSL), Pattern.Generate, Generator.Generate and  *)
(* the casing transform.                                                   *)
(*                                                                         *)
(* Go strings are modelled as sequences of runes; a rune is an atom: an    *)
(* ASCII rune is the one-character string, a non-ASCII rune is named by    *)
(* its code point ("U+4E2D").                                              *)
(***************************************************************************)
EXTENDS Integers, Sequences, FiniteSets, TLC

VARIABLES
  call,        \* the entry point exercised: "options", "dsl", "generate", ...
  opts,        \* generate.Options: the arguments of the call
  written,     \* the elements the caller wrote into opts.Pattern, in order
  defaultSep,  \* PatternBuilder.defaultSep
  pc,          \* position of the call: "ready", "done"
  pattern,     \* the *Pattern returned by the build
  err,         \* the error returned
  results,     \* Generator.Generate: the results appended so far
  batch,       \* Generator.Generate: the loop index i
  parts,       \* Pattern.Generate: the texts of the tokens generated so far
  invoked,     \* Pattern.Generate: the tokens whose Generate was invoked, in order
  passphrase,  \* the text the last Pattern.Generate returned
  draws,       \* number of reads of the random source so far
  caseWord,    \* ApplyCasing: the word argument
  caseStyle,   \* ApplyCasing: the style argument
  cased,       \* ApplyCasing: the string returned
  input,       \* CalculateEntropy: the passphrase argument
  analysis,    \* CalculateEntropy: the AnalysisResult returned
  entropyIn,   \* calculateStrength: the entropy argument
  strengthOut, \* calculateStrength: the label returned
  model,       \* tui.Model: the fields of the interactive model
  failures,    \* tui: the reads of the random source that have failed
  quit,        \* tui: the quit key was handled
  stdin,       \* check: what the input stream delivers
  arrived,     \* check: the line can be read from the input stream
  reader,      \* check: position of the reader goroutine
  scanned,     \* check: the passphrase variable the goroutine writes
  scanErr,     \* check: the scanErr variable the goroutine writes
  doneChan,    \* check: the messages buffered in the done channel
  timer,       \* check: time.After(stdinReadTimeout) has sent
  main,        \* check: position of runCheck
  output       \* check: what runCheck returned

buildVars == <<call, opts, written, defaultSep, pattern>>

genVars == <<results, batch, parts, invoked, passphrase, draws>>

casingVars == <<caseWord, caseStyle, cased>>

analysisVars == <<input, analysis, entropyIn, strengthOut>>

tuiVars == <<model, failures, quit>>

checkVars == <<stdin, arrived, reader, scanned, scanErr, doneChan, timer, main, output>>

vars == <<buildVars, pc, err, genVars, casingVars, analysisVars, tuiVars, checkVars>>

(***************************************************************************)
(* Bounds of the model.                                                    *)
(***************************************************************************)
\* largest words/digits/symbols count passed to BuildFromOptions
MaxCount == 2

\* most elements of a DSL text composed from ElementPool
MaxElems == 3

\* longest single DSL element drawn from all strings over ElemAlphabet
MaxElemLen == 4

\* largest Options.Count given to Generator.Generate
MaxBatch == 2

\* most tokens of a Pattern handed directly to Pattern.Generate
MaxTokens == 2

\* longest word handed to ApplyCasing
MaxWordLen == 3

\* longest passphrase drawn from all strings over AnalysisAlphabet
MaxInputLen == 4

\* most chunks of a passphrase composed from ChunkPool
MaxChunks == 2

\* most parts of a passphrase joined from WordPartPool
MaxParts == 3

\* most words, digits and symbols together in a Model of the interactive
\* session with more than one departure from the initial one
SmallUnits == 4

\* most columns locked at a time
MaxLocked == 1

\* last column a session locks
MaxLockColumn == 3

\* most departures of the interactive model from its initial state
MaxDepartures == 2

\* most failed reads of the random source in a session
MaxFailures == 1

\* last column whose Token.Generate may fail
MaxFailColumn == 1

\* largest whole number of bits given to calculateStrength
MaxEntropyBits == 90

(***************************************************************************)
(* Runes and strings.                                                      *)
(***************************************************************************)
LowerLetters == <<"a","b","c","d","e","f","g","h","i","j","k","l","m",
                  "n","o","p","q","r","s","t","u","v","w","x","y","z">>

UpperLetters == <<"A","B","C","D","E","F","G","H","I","J","K","L","M",
                  "N","O","P","Q","R","S","T","U","V","W","X","Y","Z">>

Digits == <<"0","1","2","3","4","5","6","7","8","9">>

\* letters that have no upper/lower case mapping (Lo category): CJK U+4E2D
CaselessLetters == {"U+4E2D"}

WhiteSpace == {" ", "\t", "\n", "\r"}

Range(s) == {s[i] : i \in 1..Len(s)}

IndexOf(s, x) == CHOOSE i \in 1..Len(s) : s[i] = x

\* unicode.ToLower on one rune
ToLowerRune(r) ==
  IF r \in Range(UpperLetters) THEN LowerLetters[IndexOf(UpperLetters, r)] ELSE r

\* unicode.ToUpper on one rune
ToUpperRune(r) ==
  IF r \in Range(LowerLetters) THEN UpperLetters[IndexOf(LowerLetters, r)] ELSE r

\* unicode.IsLetter
IsLetter(r) ==
  r \in Range(LowerLetters) \cup Range(UpperLetters) \cup CaselessLetters

\* strings.ToLower
ToLower(s) == [i \in 1..Len(s) |-> ToLowerRune(s[i])]

\* strings.ToUpper
ToUpper(s) == [i \in 1..Len(s) |-> ToUpperRune(s[i])]

RECURSIVE TrimLeft(_)
TrimLeft(s) ==
  IF s # <<>> /\ Head(s) \in WhiteSpace THEN TrimLeft(Tail(s)) ELSE s

RECURSIVE TrimRight(_)
TrimRight(s) ==
  IF s # <<>> /\ s[Len(s)] \in WhiteSpace
    THEN TrimRight(SubSeq(s, 1, Len(s) - 1)) ELSE s

\* strings.TrimSpace
TrimSpace(s) == TrimRight(TrimLeft(s))

\* strings.HasPrefix for a one-rune prefix
HasPrefix(s, r) == s # <<>> /\ Head(s) = r

\* strings.Count for a one-rune substring
Count(s, r) == Cardinality({i \in 1..Len(s) : s[i] = r})

RECURSIVE SplitFrom(_, _, _)
SplitFrom(s, r, cur) ==
  IF s = <<>> THEN <<cur>>
  ELSE IF Head(s) = r THEN <<cur>> \o SplitFrom(Tail(s), r, <<>>)
  ELSE SplitFrom(Tail(s), r, Append(cur, Head(s)))

\* strings.Split on a one-rune separator
Split(s, r) == SplitFrom(s, r, <<>>)

RECURSIVE FieldsFrom(_, _)
FieldsFrom(s, cur) ==
  IF s = <<>> THEN (IF cur = <<>> THEN <<>> ELSE <<cur>>)
  ELSE IF Head(s) \in WhiteSpace
    THEN (IF cur = <<>> THEN <<>> ELSE <<cur>>) \o FieldsFrom(Tail(s), <<>>)
  ELSE FieldsFrom(Tail(s), Append(cur, Head(s)))

\* strings.Fields
Fields(s) == FieldsFrom(s, <<>>)

RECURSIVE Join_Spaced(_, _)
\* strings.Join that puts a space between the elements whatever sep is
Join_Spaced(elems, sep) ==
  IF elems = <<>> THEN <<>>
  ELSE IF Len(elems) = 1 THEN elems[1]
  ELSE elems[1] \o <<" ">> \o Join_Spaced(Tail(elems), sep)

RECURSIVE Join(_, _)
\* strings.Join
Join(elems, sep) ==
  IF elems = <<>> THEN <<>>
  ELSE IF Len(elems) = 1 THEN elems[1]
  ELSE elems[1] \o sep \o Join(Tail(elems), sep)

(***************************************************************************)
(* Tokens, casing styles, errors.                                          *)
(***************************************************************************)
CaseLower == "lower"

CaseUpper == "upper"

CaseTitle == "title"

CaseMixed == "mixed"

CaseStyles == {CaseLower, CaseUpper, CaseTitle, CaseMixed}

\* "!@#$%^&*()_+-=[]{}|;:,.<>?"
DefaultSymbolCharset ==
  <<"!","@","#","$","%","^","&","*","(",")","_","+","-",
    "=","[","]","{","}","|",";",":",",",".","<",">","?">>

WordToken(casing) ==
  [kind |-> "word", casing |-> casing, count |-> 0, value |-> <<>>, charset |-> <<>>]

DigitToken(count) ==
  [kind |-> "digit", casing |-> "", count |-> count, value |-> <<>>, charset |-> <<>>]

SymbolToken(count, charset) ==
  [kind |-> "symbol", casing |-> "", count |-> count, value |-> <<>>, charset |-> charset]

SeparatorToken(value) ==
  [kind |-> "sep", casing |-> "", count |-> 0, value |-> value, charset |-> <<>>]

\* a nil *Pattern
NilPattern == [isNil |-> TRUE, Tokens |-> <<>>]

Pattern(tokens) == [isNil |-> FALSE, Tokens |-> tokens]

\* Token.Type(): the descriptor of a token; a count of 1 is not printed
\* ("digit", "symbol"), another count is ("digits(n)", "symbols(n)")
TokenType(t) ==
  CASE t.kind = "word" ->
         [name |-> "word", casing |-> t.casing, count |-> 0, value |-> <<>>]
    [] t.kind = "digit" ->
         IF t.count = 1
           THEN [name |-> "digit", casing |-> "", count |-> 0, value |-> <<>>]
           ELSE [name |-> "digits", casing |-> "", count |-> t.count, value |-> <<>>]
    [] t.kind = "symbol" ->
         IF t.count = 1
           THEN [name |-> "symbol", casing |-> "", count |-> 0, value |-> <<>>]
           ELSE [name |-> "symbols", casing |-> "", count |-> t.count, value |-> <<>>]
    [] t.kind = "sep" ->
         [name |-> "sep", casing |-> "", count |-> 0, value |-> t.value]

NoDescriptor == [name |-> "", casing |-> "", count |-> 0, value |-> <<>>]

\* a nil error
NoError == [kind |-> "nil", element |-> <<>>, descriptor |-> NoDescriptor]

Error(kind, element) ==
  [kind |-> kind, element |-> element, descriptor |-> NoDescriptor]

\* the error of Pattern.Generate that wraps a token's failure: it carries
\* the token's descriptor
TokenError(t) ==
  [kind |-> "token", element |-> <<>>, descriptor |-> TokenType(t)]

\* the (result, error) pair of a Build call
Built(p, e) == [pattern |-> p, err |-> e]

Lit(name) ==
  CASE name = CaseLower -> <<"l","o","w","e","r">>
    [] name = CaseUpper -> <<"u","p","p","e","r">>
    [] name = CaseTitle -> <<"t","i","t","l","e">>
    [] name = CaseMixed -> <<"m","i","x","e","d">>

\* ParseCaseStyle: (style, ok)
ParseCaseStyle(str) ==
  LET s == ToLower(TrimSpace(str))
  IN IF \E c \in CaseStyles : s = Lit(c)
       THEN [style |-> CHOOSE c \in CaseStyles : s = Lit(c), ok |-> TRUE]
       ELSE [style |-> CaseLower, ok |-> FALSE]

(***************************************************************************)
(* PatternBuilder.BuildFromOptions                                         *)
(***************************************************************************)
\* ResolveSeparator with the explicit argument checked last, so that it
\* overrides the flags
ResolveSeparator_ExplicitLast(dflt, sep, kebab, snake, camel) ==
  LET flagSep == CASE kebab -> <<"-">>
                   [] ~kebab /\ snake -> <<"_">>
                   [] ~kebab /\ ~snake /\ camel -> <<>>
                   [] OTHER -> dflt
  IN IF sep # <<>> THEN sep ELSE flagSep

\* the shortcut flags checked after the explicit separator: the switch
\* overrides whatever the explicit argument or the default gave
ResolveSeparator(dflt, sep, kebab, snake, camel) ==
  LET actualSep == IF sep # <<>> THEN sep ELSE dflt
  IN CASE kebab -> <<"-">>
       [] ~kebab /\ snake -> <<"_">>
       [] ~kebab /\ ~snake /\ camel -> <<>>
       [] OTHER -> actualSep

RECURSIVE AddWords(_, _, _, _, _)
\* the word loop: for i in [0, words), a separator before the word iff i > 0
\* and the separator is non-empty
AddWords(tokens, i, words, tok, actualSep) ==
  IF i >= words THEN tokens
  ELSE AddWords((IF i > 0 /\ actualSep # <<>>
                   THEN Append(tokens, SeparatorToken(actualSep))
                   ELSE tokens) \o <<tok>>,
                i + 1, words, tok, actualSep)

RECURSIVE AddUnits_NoEmptyCheck(_, _, _, _)
\* AddUnits without the len(tokens) > 0 test
AddUnits_NoEmptyCheck(tokens, n, tok, actualSep) ==
  IF n <= 0 THEN tokens
  ELSE AddUnits_NoEmptyCheck((IF actualSep # <<>>
                                THEN Append(tokens, SeparatorToken(actualSep))
                                ELSE tokens) \o <<tok>>,
                             n - 1, tok, actualSep)

RECURSIVE AddUnits(_, _, _, _)
\* the digit and symbol loops: n units of tok appended to tokens, a separator
\* first when tokens is non-empty and the separator is non-empty
AddUnits(tokens, n, tok, actualSep) ==
  IF n <= 0 THEN tokens
  ELSE AddUnits((IF Len(tokens) > 0 /\ actualSep # <<>>
                   THEN Append(tokens, SeparatorToken(actualSep))
                   ELSE tokens) \o <<tok>>,
                n - 1, tok, actualSep)

\* the guard that rejects a request for no tokens
NoTokensRequested(words, digits, symbols) ==
  words = 0 /\ digits = 0 /\ symbols = 0

BuildFromOptions(dflt, words, digits, symbols, casing, sep, kebab, snake, camel) ==
  IF NoTokensRequested(words, digits, symbols)
    THEN Built(NilPattern, Error("config", <<>>))
  ELSE LET cs == ParseCaseStyle(casing)
       IN IF ~cs.ok THEN Built(NilPattern, Error("casing", casing))
          ELSE LET actualSep == ResolveSeparator(dflt, sep, kebab, snake, camel)
                   t1 == AddWords(<<>>, 0, words, WordToken(cs.style), actualSep)
                   t2 == AddUnits(t1, digits, DigitToken(1), actualSep)
                   t3 == AddUnits(t2, symbols,
                                  SymbolToken(1, DefaultSymbolCharset), actualSep)
               IN Built(Pattern(t3), NoError)

(***************************************************************************)
(* PatternBuilder.BuildFromDSL                                             *)
(***************************************************************************)
minWordsRequired == 2

IsDigit(r) == r \in Range(Digits)

RECURSIVE DecimalValue(_, _)
DecimalValue(ds, acc) ==
  IF ds = <<>> THEN acc
  ELSE DecimalValue(Tail(ds), acc * 10 + (IndexOf(Digits, Head(ds)) - 1))

\* strconv.Atoi on a string of decimal digits: (value, ok).  Every string of
\* at most 18 digits is in the range of a 64-bit int; the digit strings of
\* the model are far shorter, so the range error is never taken here.
Atoi(ds) ==
  IF Len(ds) > 18 THEN [value |-> 0, ok |-> FALSE]
  ELSE [value |-> DecimalValue(ds, 0), ok |-> TRUE]

RECURSIVE LeadingRun(_, _)
\* length of the run of rune r at the start of s
LeadingRun(s, r) ==
  IF s # <<>> /\ Head(s) = r THEN 1 + LeadingRun(Tail(s), r) ELSE 0

\* the tail \{(\d+)\}$ of the two regular expressions: (matched, group)
MatchBraces(rest) ==
  IF /\ Len(rest) >= 3
     /\ rest[1] = "{"
     /\ rest[Len(rest)] = "}"
     /\ \A i \in 2..(Len(rest) - 1) : IsDigit(rest[i])
    THEN [matched |-> TRUE, group |-> SubSeq(rest, 2, Len(rest) - 1)]
    ELSE [matched |-> FALSE, group |-> <<>>]

\* regexp ^D+(?:\{(\d+)\})?$ : (matched, group)
MatchDigitToken(element) ==
  LET k == LeadingRun(element, "D")
      rest == SubSeq(element, k + 1, Len(element))
  IN IF k = 0 THEN [matched |-> FALSE, group |-> <<>>]
     ELSE IF rest = <<>> THEN [matched |-> TRUE, group |-> <<>>]
     ELSE MatchBraces(rest)

\* regexp ^S\{(\d+)\}$ : (matched, group)
MatchSymbolToken(element) ==
  IF HasPrefix(element, "S") THEN MatchBraces(Tail(element))
  ELSE [matched |-> FALSE, group |-> <<>>]

\* the (token, ok) pair of an element parser
Parsed(tok) == [token |-> tok, ok |-> TRUE]

ParseFailed == [token |-> SeparatorToken(<<>>), ok |-> FALSE]

parseWordToken(element) ==
  LET split == Split(element, ":")
  IN IF Len(split) = 1 THEN Parsed(WordToken(CaseLower))
     ELSE IF Len(split) # minWordsRequired THEN ParseFailed
     ELSE LET cs == ParseCaseStyle(split[2])
          IN IF ~cs.ok THEN ParseFailed ELSE Parsed(WordToken(cs.style))

\* parseDigitToken that never lets the {n} suffix override the number of D's
parseDigitToken_IgnoreSuffix(element) ==
  LET m == MatchDigitToken(element)
  IN IF ~m.matched THEN ParseFailed
     ELSE LET count == Count(element, "D")
          IN IF count <= 0 THEN ParseFailed ELSE Parsed(DigitToken(count))

parseDigitToken(element) ==
  LET m == MatchDigitToken(element)
  IN IF ~m.matched THEN ParseFailed
     ELSE LET n == Atoi(m.group)
              count == IF m.group # <<>> THEN n.value ELSE Count(element, "D")
          IN IF m.group # <<>> /\ ~n.ok THEN ParseFailed
             ELSE IF count <= 0 THEN ParseFailed
             ELSE Parsed(DigitToken(count))

\* parseSymbolToken that gives every symbol element the count 1
parseSymbolToken_CountOne(element) ==
  IF element = <<"S">> \/ MatchSymbolToken(element).matched
    THEN Parsed(SymbolToken(1, DefaultSymbolCharset))
    ELSE ParseFailed

parseSymbolToken(element) ==
  IF element = <<"S">> THEN Parsed(SymbolToken(1, DefaultSymbolCharset))
  ELSE LET m == MatchSymbolToken(element)
       IN IF ~m.matched THEN ParseFailed
          ELSE LET n == Atoi(m.group)
               IN IF ~n.ok THEN ParseFailed
                  ELSE IF n.value <= 0 THEN ParseFailed
                  ELSE Parsed(SymbolToken(n.value, DefaultSymbolCharset))

parseElement(dflt, elem) ==
  LET element == TrimSpace(elem)
  IN IF element = <<"S","E","P">> THEN Parsed(SeparatorToken(dflt))
     ELSE IF HasPrefix(element, "W") THEN parseWordToken(element)
     ELSE IF HasPrefix(element, "D") THEN parseDigitToken(element)
     ELSE IF HasPrefix(element, "S") THEN parseSymbolToken(element)
     ELSE ParseFailed

RECURSIVE parseElements_KeepPrefix(_, _, _)
\* parseElements that returns the tokens parsed so far with the error
parseElements_KeepPrefix(dflt, elements, tokens) ==
  IF elements = <<>> THEN Built(Pattern(tokens), NoError)
  ELSE LET r == parseElement(dflt, Head(elements))
       IN IF ~r.ok THEN Built(Pattern(tokens), Error("parse", Head(elements)))
          ELSE parseElements_KeepPrefix(dflt, Tail(elements), Append(tokens, r.token))

RECURSIVE parseElements(_, _, _)
\* the loop of parseDSL: the tokens so far are dropped at the first element
\* that fails, and the error names that element
parseElements(dflt, elements, tokens) ==
  IF elements = <<>> THEN Built(Pattern(tokens), NoError)
  ELSE LET r == parseElement(dflt, Head(elements))
       IN IF ~r.ok THEN Built(NilPattern, Error("parse", Head(elements)))
          ELSE parseElements(dflt, Tail(elements), Append(tokens, r.token))

parseDSL(dflt, dsl) == parseElements(dflt, Fields(dsl), <<>>)

BuildFromDSL(dflt, dsl) ==
  IF TrimSpace(dsl) = <<>> THEN Built(NilPattern, Error("config", <<>>))
  ELSE parseDSL(dflt, dsl)

(***************************************************************************)
(* Inputs.                                                                 *)
(***************************************************************************)
RECURSIVE SeqsUpTo(_, _)
\* all sequences over S of length at most n
SeqsUpTo(S, n) ==
  IF n = 0 THEN {<<>>}
  ELSE LET shorter == SeqsUpTo(S, n - 1)
       IN shorter \cup {Append(q, x) : q \in shorter, x \in S}

\* the casing names given to BuildFromOptions
CasingPool ==
  { Lit(CaseLower), Lit(CaseMixed), <<"T","i","t","l","e">>,
    <<" ","u","p","p","e","r"," ">>, <<"b","o","g","u","s">>, <<>> }

\* the separator strings given as the explicit argument
SepPool == { <<>>, <<".">>, <<"-">> }

\* the separators a builder is configured with
DefaultSepPool == { <<>>, <<"-">>, <<"+">> }

E_SEP == <<"S","E","P">>

E_W == <<"W">>

E_Wtitle == <<"W",":">> \o Lit(CaseTitle)

E_Wlower == <<"W",":">> \o Lit(CaseLower)

E_Wupper == <<"W",":">> \o Lit(CaseUpper)

E_Wmixed == <<"W",":">> \o Lit(CaseMixed)

E_Wbogus == <<"W",":","b","o","g","u","s">>

E_WORD == <<"W","O","R","D">>

E_DD == <<"D","D">>

E_DD2 == <<"D","D","{","2","}">>

E_D0 == <<"D","{","0","}">>

E_S == <<"S">>

E_S2 == <<"S","{","2","}">>

E_SS1 == <<"S","S","{","1","}">>

\* the elements DSL texts are composed from
ElementPool ==
  { E_SEP, E_W, E_Wtitle, E_Wupper, E_Wbogus, E_WORD,
    E_DD, E_DD2, E_D0, E_S, E_S2, E_SS1 }

\* the runes single elements are drawn from exhaustively
ElemAlphabet == {"W", "D", "S", "{", "}", "0", "2", ":", "x"}

\* the example in the doc comment of BuildFromDSL and in `gen --help`
DocExample == <<E_Wtitle, E_SEP, E_Wlower, E_SEP, E_DD2, E_SEP, E_S>>

\* the two patterns of the README's Pattern DSL section
ReadmeExample1 == <<E_Wtitle, E_SEP, E_Wlower, E_SEP, E_DD2, E_SEP, E_SS1>>

ReadmeExample2 == <<E_Wupper, E_Wlower, E_Wtitle, E_Wmixed>>

ReadmePatterns == {ReadmeExample1, ReadmeExample2}

\* the whitespace put between two elements, and around the text
Gaps == { <<" ">>, <<"\t"," ">> }

Pads == { <<>>, <<" ">> }

DefaultOptions ==
  [Words |-> 4, Digits |-> 0, Symbols |-> 0, Separator |-> <<"-">>,
   Casing |-> Lit(CaseMixed), Pattern |-> <<>>,
   Kebab |-> FALSE, Snake |-> FALSE, Camel |-> FALSE, Count |-> 1,
   MinEntropy |-> 0, MinLength |-> 0]

(***************************************************************************)
(* The builder called directly: one call per behaviour.                    *)
(***************************************************************************)
\* the words/digits/symbols counts given to BuildFromOptions: the flags are
\* plain ints, so a negative count reaches the builder
CountPool == (-1)..MaxCount

InitOptions ==
  /\ call = "options"
  /\ \E w \in CountPool, d \in CountPool, s \in CountPool,
        c \in CasingPool, sep \in SepPool, k \in BOOLEAN, sn \in BOOLEAN, cm \in BOOLEAN :
       opts = [DefaultOptions EXCEPT !.Words = w, !.Digits = d, !.Symbols = s,
                 !.Casing = c, !.Separator = sep,
                 !.Kebab = k, !.Snake = sn, !.Camel = cm]
  /\ written = <<>>
  /\ defaultSep \in DefaultSepPool

InitDSL ==
  /\ call = "dsl"
  /\ \/ \E es \in SeqsUpTo(ElementPool, MaxElems), gap \in Gaps, pad \in Pads :
          /\ written = es
          /\ opts = [DefaultOptions EXCEPT !.Pattern = pad \o Join(es, gap) \o pad]
     \/ \E e \in SeqsUpTo(ElemAlphabet, MaxElemLen) \ {<<>>} :
          /\ written = <<e>>
          /\ opts = [DefaultOptions EXCEPT !.Pattern = e]
     \/ \E es \in ReadmePatterns \cup {DocExample} :
          /\ written = es
          /\ opts = [DefaultOptions EXCEPT !.Pattern = Join(es, <<" ">>)]
  /\ defaultSep \in {<<"-">>, <<>>}

GenIdle ==
  /\ results = <<>>
  /\ batch = 0
  /\ parts = <<>>
  /\ invoked = <<>>
  /\ passphrase = <<>>
  /\ draws = 0

CasingIdle ==
  /\ caseWord = <<>>
  /\ caseStyle = CaseLower
  /\ cased = <<>>

\* AnalysisResult{}
ZeroAnalysis ==
  [Passphrase |-> <<>>, Length |-> 0, Entropy |-> 0, CharsetSize |-> 0,
   Charsets |-> <<>>, Strength |-> "", CrackTime |-> "", Patterns |-> <<>>,
   WordBased |-> FALSE, EstimatedWords |-> 0]

AnalysisIdle ==
  /\ input = <<>>
  /\ analysis = ZeroAnalysis
  /\ entropyIn = 0
  /\ strengthOut = ""

\* a Model{} that was never constructed
ZeroModel ==
  [words |-> 0, digits |-> 0, symbols |-> 0, casing |-> "", currentSep |-> 0,
   pattern |-> NilPattern, columns |-> <<>>, focused |-> 0, passphrase |-> <<>>,
   entropy |-> 0, strength |-> ""]

TuiIdle ==
  /\ model = ZeroModel
  /\ failures = 0
  /\ quit = FALSE

\* the value of output before runCheck returns
NoOutput == [kind |-> "none", message |-> "", analysis |-> ZeroAnalysis]

\* an input stream that stays open and delivers nothing
SilentStream == [kind |-> "silent", data |-> <<>>]

CheckIdle ==
  /\ stdin = SilentStream
  /\ arrived = FALSE
  /\ reader = "idle"
  /\ scanned = <<>>
  /\ scanErr = FALSE
  /\ doneChan = 0
  /\ timer = FALSE
  /\ main = "idle"
  /\ output = NoOutput

InitBuild ==
  /\ InitOptions \/ InitDSL
  /\ pc = "ready"
  /\ pattern = NilPattern
  /\ err = NoError
  /\ GenIdle
  /\ CasingIdle
  /\ AnalysisIdle
  /\ TuiIdle
  /\ CheckIdle

CallBuildFromOptions ==
  /\ pc = "ready"
  /\ call = "options"
  /\ LET r == BuildFromOptions(defaultSep, opts.Words, opts.Digits, opts.Symbols,
                               opts.Casing, opts.Separator,
                               opts.Kebab, opts.Snake, opts.Camel)
     IN /\ pattern' = r.pattern
        /\ err' = r.err
  /\ pc' = "done"
  /\ UNCHANGED <<call, opts, written, defaultSep, genVars, casingVars, analysisVars, tuiVars, checkVars>>

CallBuildFromDSL ==
  /\ pc = "ready"
  /\ call = "dsl"
  /\ LET r == BuildFromDSL(defaultSep, opts.Pattern)
     IN /\ pattern' = r.pattern
        /\ err' = r.err
  /\ pc' = "done"
  /\ UNCHANGED <<call, opts, written, defaultSep, genVars, casingVars, analysisVars, tuiVars, checkVars>>

NextBuild == CallBuildFromOptions \/ CallBuildFromDSL

SpecBuild == InitBuild /\ [][NextBuild]_vars

(***************************************************************************)
(* Vocabulary of the properties.                                           *)
(***************************************************************************)
BuiltFromOptions == pc = "done" /\ call = "options"

BuiltFromDSL == pc = "done" /\ call = "dsl"

\* the tokens of a pattern that are not separators
Units(tokens) == SelectSeq(tokens, LAMBDA t : t.kind # "sep")

\* the separator literals that occur in a pattern
SeparatorsOf(tokens) ==
  {tokens[i].value : i \in {j \in 1..Len(tokens) : tokens[j].kind = "sep"}}

\* a pattern with at least two units uses separator s: s sits between the
\* units when it is non-empty, nothing does when it is empty
UsesSeparator(tokens, s) ==
  SeparatorsOf(tokens) = IF s = <<>> THEN {} ELSE {s}

\* the precedence the flags really have: kebab, snake, camel, then the
\* explicit argument, then the builder's default
FlagsFirst(o, dflt) ==
  IF o.Kebab THEN <<"-">>
  ELSE IF o.Snake THEN <<"_">>
  ELSE IF o.Camel THEN <<>>
  ELSE IF o.Separator # <<>> THEN o.Separator
  ELSE dflt

\* the casing style each accepted casing name of CasingPool stands for
StyleNamed(name) ==
  CASE name = Lit(CaseLower) -> CaseLower
    [] name = Lit(CaseMixed) -> CaseMixed
    [] name = <<"T","i","t","l","e">> -> CaseTitle
    [] name = <<" ","u","p","p","e","r"," ">> -> CaseUpper
    [] OTHER -> "none"

\* the unit tokens BuildFromOptions is to emit: words, then digits, then symbols
ExpectedUnits(o) ==
  [i \in 1..(o.Words + o.Digits + o.Symbols) |->
     IF i <= o.Words THEN WordToken(StyleNamed(o.Casing))
     ELSE IF i <= o.Words + o.Digits THEN DigitToken(1)
     ELSE SymbolToken(1, DefaultSymbolCharset)]

\* units with separator s between every adjacent pair
Interleaved(units, s) ==
  IF s = <<>> \/ units = <<>> THEN units
  ELSE [j \in 1..(2 * Len(units) - 1) |->
          IF j % 2 = 1 THEN units[(j + 1) \div 2] ELSE SeparatorToken(s)]

\* C1 (as claimed): a non-empty separator argument is the separator used in
\* the built pattern, whatever the kebab/snake/camel flags are.
C1_ExplicitSeparatorWins ==
  (/\ BuiltFromOptions
   /\ ~pattern.isNil
   /\ Len(Units(pattern.Tokens)) >= 2
   /\ opts.Separator # <<>>)
  => UsesSeparator(pattern.Tokens, opts.Separator)

\* C1 (amended): the separator of the built pattern is resolved by the
\* precedence kebab ("-") > snake ("_") > camel ("") > explicit non-empty
\* separator argument > the builder's default.
C1_FlagsBeatExplicitSeparator ==
  (/\ BuiltFromOptions
   /\ ~pattern.isNil
   /\ Len(Units(pattern.Tokens)) >= 2)
  => UsesSeparator(pattern.Tokens, FlagsFirst(opts, defaultSep))

C1_Witness ==
  /\ BuiltFromOptions
  /\ opts.Separator = <<".">>
  /\ opts.Snake /\ ~opts.Kebab /\ opts.Camel
  /\ opts.Words = 2
  /\ SeparatorsOf(pattern.Tokens) = {<<"_">>}

C3_ZeroSumFails ==
  (/\ BuiltFromOptions
   /\ opts.Words + opts.Digits + opts.Symbols = 0)
  => (err # NoError /\ pattern.isNil)

\* ---- the DSL grammar as the documentation gives it ----
KnownCasingName(name) == \E c \in CaseStyles : name = Lit(c)

WordForm(e) ==
  /\ Len(e) > 2
  /\ e[1] = "W" /\ e[2] = ":"
  /\ KnownCasingName(SubSeq(e, 3, Len(e)))

\* e is k times the rune r followed by nothing or by {digits}
RepeatForm(e, r, k) ==
  /\ k >= 1 /\ k <= Len(e)
  /\ \A i \in 1..k : e[i] = r
  /\ \/ Len(e) = k
     \/ /\ Len(e) >= k + 3
        /\ e[k + 1] = "{"
        /\ e[Len(e)] = "}"
        /\ \A i \in (k + 2)..(Len(e) - 1) : IsDigit(e[i])

DigitForm(e) == \E k \in 1..Len(e) : RepeatForm(e, "D", k)

SymbolForm(e) == RepeatForm(e, "S", 1)

RECURSIVE NumeralValue(_)
\* the number a decimal numeral denotes
NumeralValue(ds) ==
  IF ds = <<>> THEN 0
  ELSE 10 * NumeralValue(SubSeq(ds, 1, Len(ds) - 1))
         + (CHOOSE d \in 0..9 : Digits[d + 1] = ds[Len(ds)])

\* the count a digit or symbol element asks for: n of the {n} suffix when
\* there is one, the number of leading D/S runes otherwise
AskedCount(e) ==
  LET k == CHOOSE j \in 1..Len(e) : RepeatForm(e, e[1], j)
  IN IF e[Len(e)] = "}" THEN NumeralValue(SubSeq(e, k + 2, Len(e) - 1)) ELSE k

\* one of the documented element forms
DocumentedForm(e) ==
  \/ e = E_SEP
  \/ e = E_W
  \/ WordForm(e)
  \/ DigitForm(e)
  \/ SymbolForm(e)

WellFormed(e) ==
  /\ DocumentedForm(e)
  /\ (DigitForm(e) \/ SymbolForm(e)) => AskedCount(e) > 0

\* the token the grammar table assigns to a well-formed element
TokenFor(e, dflt) ==
  IF e = E_SEP THEN SeparatorToken(dflt)
  ELSE IF e = E_W THEN WordToken(CaseLower)
  ELSE IF WordForm(e)
    THEN WordToken(CHOOSE c \in CaseStyles : SubSeq(e, 3, Len(e)) = Lit(c))
  ELSE IF DigitForm(e) THEN DigitToken(AskedCount(e))
  ELSE SymbolToken(AskedCount(e), DefaultSymbolCharset)

\* C4: a DSL whose elements are all well-formed yields exactly one token per
\* whitespace-separated element, in the same order, each token determined by
\* its own element alone.
C4_OneTokenPerElement ==
  (/\ BuiltFromDSL
   /\ written # <<>>
   /\ \A i \in 1..Len(written) : WellFormed(written[i]))
  => /\ err = NoError
     /\ ~pattern.isNil
     /\ pattern.Tokens = [i \in 1..Len(written) |-> TokenFor(written[i], defaultSep)]

C4_Witness ==
  /\ BuiltFromDSL
  /\ written = DocExample
  /\ defaultSep = <<"-">>
  /\ pattern.Tokens = << WordToken(CaseTitle), SeparatorToken(<<"-">>),
                         WordToken(CaseLower), SeparatorToken(<<"-">>),
                         DigitToken(2), SeparatorToken(<<"-">>),
                         SymbolToken(1, DefaultSymbolCharset) >>

\* C5: a digit element of k >= 1 D's with an optional {n} suffix gives a
\* Digit token of count n when the suffix is present and k otherwise; it is
\* rejected when that count is not > 0; no Digit token built from the DSL
\* has a non-positive count.
C5_DigitCount ==
  BuiltFromDSL =>
    /\ \A i \in 1..Len(written) :
         DigitForm(written[i]) =>
           /\ AskedCount(written[i]) <= 0 => (pattern.isNil /\ err.kind = "parse")
           /\ (AskedCount(written[i]) > 0 /\ Len(written) = 1) => ~pattern.isNil
           /\ ~pattern.isNil =>
                /\ Len(pattern.Tokens) = Len(written)
                /\ pattern.Tokens[i] = DigitToken(AskedCount(written[i]))
    /\ \A j \in 1..Len(pattern.Tokens) :
         pattern.Tokens[j].kind = "digit" => pattern.Tokens[j].count > 0

C5_Witness ==
  /\ BuiltFromDSL
  /\ written = << <<"D","{","2","}">> >>
  /\ pattern.Tokens = <<DigitToken(2)>>

\* C6 (as claimed): a DSL with an element that is not one of the documented
\* forms is rejected with a parse error naming the first such element.
C6_UndocumentedFormRejected ==
  (/\ BuiltFromDSL
   /\ \E i \in 1..Len(written) : ~DocumentedForm(written[i]))
  => /\ pattern.isNil
     /\ err.kind = "parse"
     /\ \E i \in 1..Len(written) : err.element = written[i]

\* C7 (as claimed): every pattern of the README's Pattern DSL section builds,
\* the last element SS{1} of the first one yielding a Symbol token.
C7_ReadmePatternsBuild ==
  (/\ BuiltFromDSL
   /\ written \in ReadmePatterns)
  => /\ err = NoError
     /\ ~pattern.isNil
     /\ Len(pattern.Tokens) = Len(written)
     /\ written = ReadmeExample1 => pattern.Tokens[7].kind = "symbol"

(***************************************************************************)
(* Token.Generate and ApplyCasing.  A call reads the random source some    *)
(* number of times; every read either fails or returns a value.  An        *)
(* outcome is (ok, text, draws): whether the call succeeded, the text it   *)
(* returned, and how many reads it made.                                   *)
(***************************************************************************)
Outcome(ok, text, n) == [ok |-> ok, text |-> text, draws |-> n]

\* the values a read of rand.Int(max = n) returns in the model: the two
\* ends of its range [0, n)
RandValues(n) == {0, n - 1}

\* the words of the dictionary
DictWords == { <<"a","b">>, <<"c">> }

LetterPositions(w) == {i \in 1..Len(w) : IsLetter(w[i])}

\* applyMixedCase when every read succeeds; flips[i] is the bit read for
\* the letter at position i
applyMixedCase(w, flips) ==
  LET runes == [i \in 1..Len(w) |->
                  IF IsLetter(w[i])
                    THEN IF flips[i] = 1 THEN ToUpperRune(w[i]) ELSE ToLowerRune(w[i])
                    ELSE w[i]]
      changes == Cardinality({i \in LetterPositions(w) : flips[i] = 1})
      letters == {i \in 1..Len(runes) : IsLetter(runes[i])}
  IN IF changes = 0 /\ letters # {}
       THEN LET first == CHOOSE i \in letters : \A j \in letters : i <= j
            IN [runes EXCEPT ![first] = ToUpperRune(runes[first])]
       ELSE runes

\* cases.Title(language.English) of the lower-cased word, for a word that
\* is one run of ASCII letters and digits: its first letter is upper-cased
TitleCase(w) ==
  LET lower == ToLower(w)
      letters == LetterPositions(lower)
  IN IF letters = {} THEN lower
     ELSE LET first == CHOOSE i \in letters : \A j \in letters : i <= j
          IN [lower EXCEPT ![first] = ToUpperRune(lower[first])]

\* ApplyCasing: its outcomes over the reads of the random source
ApplyCasing(w, st) ==
  CASE st = CaseLower -> {Outcome(TRUE, ToLower(w), 0)}
    [] st = CaseUpper -> {Outcome(TRUE, ToUpper(w), 0)}
    [] st = CaseTitle -> {Outcome(TRUE, TitleCase(w), 0)}
    [] st = CaseMixed ->
         LET n == Cardinality(LetterPositions(w))
         IN {Outcome(TRUE, applyMixedCase(w, f), n) :
               f \in [LetterPositions(w) -> RandValues(2)]}
            \cup {Outcome(FALSE, <<>>, j) : j \in 1..n}
    [] OTHER -> {Outcome(TRUE, w, 0)}

\* WordToken.Generate
WordGenerate(t) ==
  {Outcome(FALSE, <<>>, 1)}
    \cup UNION {{Outcome(o.ok, o.text, o.draws + 1) : o \in ApplyCasing(w, t.casing)} :
                  w \in DictWords}

\* DigitToken.Generate
DigitGenerate(t) ==
  IF t.count <= 0 THEN {Outcome(FALSE, <<>>, 0)}
  ELSE {Outcome(TRUE, [i \in 1..t.count |-> Digits[q[i] + 1]], t.count) :
          q \in [1..t.count -> RandValues(10)]}
       \cup {Outcome(FALSE, <<>>, j) : j \in 1..t.count}

\* SymbolToken.Generate
SymbolGenerate(t) ==
  IF t.count <= 0 THEN {Outcome(FALSE, <<>>, 0)}
  ELSE LET charset == IF t.charset = <<>> THEN DefaultSymbolCharset ELSE t.charset
       IN IF Len(charset) = 0 THEN {Outcome(FALSE, <<>>, 0)}
          ELSE {Outcome(TRUE, [i \in 1..t.count |-> charset[q[i] + 1]], t.count) :
                  q \in [1..t.count -> RandValues(Len(charset))]}
               \cup {Outcome(FALSE, <<>>, j) : j \in 1..t.count}

\* SeparatorToken.Generate
SeparatorGenerate(t) == {Outcome(TRUE, t.value, 0)}

\* Token.Generate, by variant
TokenGenerate(t) ==
  CASE t.kind = "word" -> WordGenerate(t)
    [] t.kind = "digit" -> DigitGenerate(t)
    [] t.kind = "symbol" -> SymbolGenerate(t)
    [] t.kind = "sep" -> SeparatorGenerate(t)

(***************************************************************************)
(* Bytes.  len(s) and s[i] of a Go string count and index its UTF-8 bytes. *)
(***************************************************************************)
\* the printable ASCII characters, from 0x20 to 0x7E (the grave accent, 0x60,
\* is written U+0060)
Ascii ==
  << " ", "!", "\"", "#", "$", "%", "&", "'", "(", ")", "*", "+",
     ",", "-", ".", "/", "0", "1", "2", "3", "4", "5", "6", "7",
     "8", "9", ":", ";", "<", "=", ">", "?", "@", "A", "B", "C",
     "D", "E", "F", "G", "H", "I", "J", "K", "L", "M", "N", "O",
     "P", "Q", "R", "S", "T", "U", "V", "W", "X", "Y", "Z", "[",
     "\\", "]", "^", "_", "U+0060", "a", "b", "c", "d", "e", "f", "g",
     "h", "i", "j", "k", "l", "m", "n", "o", "p", "q", "r", "s",
     "t", "u", "v", "w", "x", "y", "z", "{", "|", "}", "~" >>

\* the UTF-8 encoding of one rune
Utf8(r) ==
  CASE r = "U+4E2D" -> <<228, 184, 173>>
    [] r = "\t" -> <<9>>
    [] OTHER -> <<IndexOf(Ascii, r) + 31>>

RECURSIVE Bytes(_)
\* the bytes of a string
Bytes(s) == IF s = <<>> THEN <<>> ELSE Utf8(Head(s)) \o Bytes(Tail(s))

\* len(s)
ByteLen(s) == Len(Bytes(s))

(***************************************************************************)
(* Entropy.  A float64 number of bits is kept as a whole number of         *)
(* millionths of a bit.                                                    *)
(***************************************************************************)
Bits(n) == n * 1000000

\* math.Log2 of 1, 2, ..., 95
Log2Table ==
  << 0, 1000000, 1584963, 2000000, 2321928, 2584963, 2807355, 3000000,
     3169925, 3321928, 3459432, 3584963, 3700440, 3807355, 3906891, 4000000,
     4087463, 4169925, 4247928, 4321928, 4392317, 4459432, 4523562, 4584963,
     4643856, 4700440, 4754888, 4807355, 4857981, 4906891, 4954196, 5000000,
     5044394, 5087463, 5129283, 5169925, 5209453, 5247928, 5285402, 5321928,
     5357552, 5392317, 5426265, 5459432, 5491853, 5523562, 5554589, 5584963,
     5614710, 5643856, 5672425, 5700440, 5727920, 5754888, 5781360, 5807355,
     5832890, 5857981, 5882643, 5906891, 5930737, 5954196, 5977280, 6000000,
     6022368, 6044394, 6066089, 6087463, 6108524, 6129283, 6149747, 6169925,
     6189825, 6209453, 6228819, 6247928, 6266787, 6285402, 6303781, 6321928,
     6339850, 6357552, 6375039, 6392317, 6409391, 6426265, 6442943, 6459432,
     6475733, 6491853, 6507795, 6523562, 6539159, 6554589, 6569856 >>

\* math.Log2(float64(n))
Log2(n) == Log2Table[n]

\* wordDict.EntropyBits
DictEntropyBits ==
  IF Cardinality(DictWords) = 0 THEN 0 ELSE Log2(Cardinality(DictWords))

\* CaseStyle.EntropyBits
CaseStyleEntropyBits(st) == IF st = CaseMixed THEN Bits(1) ELSE 0

\* WordToken.EntropyBits
WordEntropyBits(t) == DictEntropyBits + CaseStyleEntropyBits(t.casing)

\* DigitToken.EntropyBits
DigitEntropyBits(t) == IF t.count <= 0 THEN 0 ELSE t.count * Log2(10)

\* SymbolToken.EntropyBits
SymbolEntropyBits(t) ==
  IF t.count <= 0 THEN 0
  ELSE LET charset == IF t.charset = <<>> THEN DefaultSymbolCharset ELSE t.charset
       IN IF ByteLen(charset) = 0 THEN 0
          ELSE t.count * Log2(ByteLen(charset))

\* Token.EntropyBits, by variant
TokenEntropyBits(t) ==
  CASE t.kind = "word" -> WordEntropyBits(t)
    [] t.kind = "digit" -> DigitEntropyBits(t)
    [] t.kind = "symbol" -> SymbolEntropyBits(t)
    [] t.kind = "sep" -> 0

RECURSIVE SumEntropyBits(_)
SumEntropyBits(tokens) ==
  IF tokens = <<>> THEN 0
  ELSE TokenEntropyBits(Head(tokens)) + SumEntropyBits(Tail(tokens))

\* Pattern.EntropyBits
PatternEntropyBits(p) == SumEntropyBits(p.Tokens)

WeakEntropyThreshold == 45

OkayEntropyThreshold == 65

StrongEntropyThreshold == 80

\* calculateStrength of the generation engine
calculateStrength(entropy) ==
  CASE entropy < Bits(WeakEntropyThreshold) -> "Weak"
    [] entropy >= Bits(WeakEntropyThreshold)
         /\ entropy < Bits(OkayEntropyThreshold) -> "Okay"
    [] entropy >= Bits(OkayEntropyThreshold)
         /\ entropy < Bits(StrongEntropyThreshold) -> "Strong"
    [] OTHER -> "Excellent"

secondsEntropyThreshold == 30

minutesEntropyThreshold == 40

hoursEntropyThreshold == 50

daysEntropyThreshold == 60

yearsEntropyThreshold == 70

centuriesEntropyThreshold == 80

\* estimateCrackTime
estimateCrackTime(entropy) ==
  IF entropy <= 0 THEN "Instant"
  ELSE IF entropy < Bits(secondsEntropyThreshold) THEN "Seconds"
  ELSE IF entropy < Bits(minutesEntropyThreshold) THEN "Minutes"
  ELSE IF entropy < Bits(hoursEntropyThreshold) THEN "Hours"
  ELSE IF entropy < Bits(daysEntropyThreshold) THEN "Days"
  ELSE IF entropy < Bits(yearsEntropyThreshold) THEN "Years"
  ELSE IF entropy < Bits(centuriesEntropyThreshold) THEN "Centuries"
  ELSE "Millennia"

\* checkPolicy with a length test that also fails a passphrase of exactly
\* the minimum length
checkPolicy_StrictLength(text, entropy, minLength, minEntropy) ==
  IF minLength > 0 /\ ByteLen(text) <= minLength THEN FALSE
  ELSE IF minEntropy > 0 /\ entropy < Bits(minEntropy) THEN FALSE
  ELSE TRUE

\* checkPolicy
checkPolicy(text, entropy, minLength, minEntropy) ==
  IF minLength > 0 /\ ByteLen(text) < minLength THEN FALSE
  ELSE IF minEntropy > 0 /\ entropy < Bits(minEntropy) THEN FALSE
  ELSE TRUE

\* Pattern.String(): the descriptors of the tokens
PatternString(p) == [i \in 1..Len(p.Tokens) |-> TokenType(p.Tokens[i])]

\* the Result appended for one passphrase
Result(p, text, o) ==
  [Passphrase |-> text,
   Entropy |-> PatternEntropyBits(p),
   Length |-> ByteLen(text),
   Pattern |-> PatternString(p),
   Strength |-> calculateStrength(PatternEntropyBits(p)),
   CrackTime |-> estimateCrackTime(PatternEntropyBits(p)),
   PolicyPass |-> checkPolicy(text, PatternEntropyBits(p), o.MinLength, o.MinEntropy)]

\* the count taken as given, zero and negative included
BatchCount_AsGiven(o) == o.Count

\* count := opts.Count; if count <= 0 { count = 1 }
BatchCount(o) == IF o.Count <= 0 THEN 1 ELSE o.Count

(***************************************************************************)
(* Generator.Generate and Pattern.Generate, step by step.                  *)
(* pc: "ready" -> "loop" -> "tokens" -> "returned" | "failed" -> ... "done" *)
(***************************************************************************)
\* the tokens patterns handed directly to Pattern.Generate are made of
TokenPool ==
  { WordToken(CaseMixed), WordToken(CaseTitle), DigitToken(2), DigitToken(0),
    SymbolToken(1, <<>>), SymbolToken(-1, DefaultSymbolCharset),
    SymbolToken(2, <<"#","/">>), SeparatorToken(<<"-">>) }

\* the (words, digits, symbols) triples given to Generator.Generate
GenerateCounts == { <<0,0,0>>, <<1,0,0>>, <<1,1,0>>, <<0,1,1>>, <<-1,0,0>> }

\* the DSL texts given to Generator.Generate, by their elements
GenerateDSLs ==
  { <<E_W, E_SEP, E_DD2>>, <<E_S2>>, <<E_Wmixed, E_D0>>, <<E_Wbogus>>,
    <<E_DD, E_WORD>>, <<E_S, E_SS1>> }

\* the --min-length and --min-entropy values given to Generator.Generate
PolicyLengths == {-1, 0, 2}

PolicyEntropies == {-1, 0, 1, 5}

InitGenerate ==
  /\ call = "generate"
  /\ \/ \E c \in GenerateCounts,
           cs \in {Lit(CaseLower), Lit(CaseMixed), <<"b","o","g","u","s">>},
           n \in (-1)..MaxBatch,
           ml \in PolicyLengths, me \in PolicyEntropies :
          /\ opts = [DefaultOptions EXCEPT !.Words = c[1], !.Digits = c[2],
                       !.Symbols = c[3], !.Casing = cs, !.Count = n,
                       !.MinLength = ml, !.MinEntropy = me]
          /\ written = <<>>
     \/ \E es \in GenerateDSLs, n \in (-1)..MaxBatch :
          /\ opts = [DefaultOptions EXCEPT !.Pattern = Join(es, <<" ">>), !.Count = n]
          /\ written = es
     \/ \E n \in (-1)..MaxBatch :
          /\ opts = [DefaultOptions EXCEPT !.Pattern = <<" ","\t">>, !.Count = n]
          /\ written = <<>>
  /\ defaultSep = opts.Separator
  /\ pattern = NilPattern

InitPattern ==
  /\ call = "pattern"
  /\ opts = DefaultOptions
  /\ written = <<>>
  /\ defaultSep = <<"-">>
  /\ \E ts \in SeqsUpTo(TokenPool, MaxTokens) : pattern = Pattern(ts)

InitGen ==
  /\ InitGenerate \/ InitPattern
  /\ pc = "ready"
  /\ err = NoError
  /\ GenIdle
  /\ CasingIdle
  /\ AnalysisIdle
  /\ TuiIdle
  /\ CheckIdle

\* Generator.Generate, lines 68-87: build the pattern, return its error
GenerateBuild ==
  /\ call = "generate"
  /\ pc = "ready"
  /\ LET r == IF opts.Pattern # <<>>
                THEN BuildFromDSL(defaultSep, opts.Pattern)
                ELSE BuildFromOptions(defaultSep, opts.Words, opts.Digits,
                                      opts.Symbols, opts.Casing, opts.Separator,
                                      opts.Kebab, opts.Snake, opts.Camel)
     IN /\ pattern' = r.pattern
        /\ err' = r.err
        /\ pc' = IF r.err # NoError THEN "done" ELSE "loop"
  /\ UNCHANGED <<call, opts, written, defaultSep, genVars, casingVars, analysisVars, tuiVars, checkVars>>

\* Pattern.Generate is entered: by the loop of Generator.Generate, or directly
PatternGenerateEnter ==
  /\ \/ call = "generate" /\ pc = "loop" /\ batch < BatchCount(opts)
     \/ call = "pattern" /\ pc = "ready"
  /\ IF Len(pattern.Tokens) = 0
       THEN /\ err' = Error("empty", <<>>)
            /\ pc' = "failed"
       ELSE /\ err' = err
            /\ pc' = "tokens"
  /\ parts' = <<>>
  /\ invoked' = <<>>
  /\ passphrase' = <<>>
  /\ UNCHANGED <<buildVars, results, batch, draws, casingVars, analysisVars, tuiVars, checkVars>>

\* one iteration of the loop of Pattern.Generate: the next token's Generate
PatternGenerateToken ==
  /\ pc = "tokens"
  /\ Len(parts) < Len(pattern.Tokens)
  /\ LET k == Len(parts) + 1
     IN \E o \in TokenGenerate(pattern.Tokens[k]) :
          /\ invoked' = Append(invoked, k)
          /\ draws' = draws + o.draws
          /\ IF o.ok
               THEN /\ parts' = Append(parts, o.text)
                    /\ UNCHANGED <<pc, err>>
               ELSE /\ err' = TokenError(pattern.Tokens[k])
                    /\ pc' = "failed"
                    /\ UNCHANGED parts
  /\ UNCHANGED <<buildVars, results, batch, passphrase, casingVars, analysisVars, tuiVars, checkVars>>

\* Pattern.Generate returns strings.Join(parts, "")
PatternGenerateReturn ==
  /\ pc = "tokens"
  /\ Len(parts) = Len(pattern.Tokens)
  /\ passphrase' = Join(parts, <<>>)
  /\ pc' = "returned"
  /\ UNCHANGED <<buildVars, err, results, batch, parts, invoked, draws, casingVars, analysisVars, tuiVars, checkVars>>

\* Generator.Generate, lines 103-113: the result is appended
GenerateAppend ==
  /\ call = "generate"
  /\ pc = "returned"
  /\ results' = Append(results, Result(pattern, passphrase, opts))
  /\ batch' = batch + 1
  /\ pc' = "loop"
  /\ UNCHANGED <<buildVars, err, parts, invoked, passphrase, draws, casingVars, analysisVars, tuiVars, checkVars>>

\* Generator.Generate, lines 99-101: return nil and the error
GenerateAbort ==
  /\ call = "generate"
  /\ pc = "failed"
  /\ results' = <<>>
  /\ pc' = "done"
  /\ UNCHANGED <<buildVars, err, batch, parts, invoked, passphrase, draws, casingVars, analysisVars, tuiVars, checkVars>>

\* Generator.Generate, line 116: return the results
GenerateReturn ==
  /\ call = "generate"
  /\ pc = "loop"
  /\ batch >= BatchCount(opts)
  /\ pc' = "done"
  /\ UNCHANGED <<buildVars, err, genVars, casingVars, analysisVars, tuiVars, checkVars>>

NextGen ==
  \/ GenerateBuild
  \/ PatternGenerateEnter
  \/ PatternGenerateToken
  \/ PatternGenerateReturn
  \/ GenerateAppend
  \/ GenerateAbort
  \/ GenerateReturn

SpecGen == InitGen /\ [][NextGen]_vars

(***************************************************************************)
(* ApplyCasing called directly: one call per behaviour.                    *)
(***************************************************************************)
\* the runes of the words given to ApplyCasing: a lower-case and an
\* upper-case letter, a digit, and a letter without case
CasingRunes == {"a", "B", "1", "U+4E2D"}

InitCasing ==
  /\ call = "casing"
  /\ opts = DefaultOptions
  /\ written = <<>>
  /\ defaultSep = <<"-">>
  /\ pattern = NilPattern
  /\ pc = "ready"
  /\ err = NoError
  /\ GenIdle
  /\ AnalysisIdle
  /\ TuiIdle
  /\ CheckIdle
  /\ caseWord \in SeqsUpTo(CasingRunes, MaxWordLen)
  /\ caseStyle \in CaseStyles
  /\ caseStyle = CaseTitle => Range(caseWord) \cap CaselessLetters = {}
  /\ cased = <<>>

ApplyCasingCall ==
  /\ call = "casing"
  /\ pc = "ready"
  /\ \E o \in ApplyCasing(caseWord, caseStyle) :
       /\ cased' = o.text
       /\ err' = IF o.ok THEN NoError ELSE Error("rand", <<>>)
       /\ draws' = o.draws
  /\ pc' = "done"
  /\ UNCHANGED <<buildVars, results, batch, parts, invoked, passphrase,
                 caseWord, caseStyle, analysisVars, tuiVars, checkVars>>

NextCasing == ApplyCasingCall

SpecCasing == InitCasing /\ [][NextCasing]_vars

\* the errors of pattern construction
ConstructionErrors == {"config", "casing", "parse"}

\* C8: when pattern construction fails, no pattern at all is returned (never
\* the tokens parsed so far) and Generator.Generate returns the error with
\* no result, before any token's Generate is invoked and before any read of
\* the random source; a pattern is generated from only when there was no error.
C8_NoPartialPattern ==
  /\ (call = "generate" /\ err.kind \in ConstructionErrors) =>
       /\ pc = "done"
       /\ pattern.isNil
       /\ pattern.Tokens = <<>>
       /\ results = <<>>
       /\ invoked = <<>>
       /\ parts = <<>>
       /\ draws = 0
  /\ (call = "generate" /\ pc # "ready" /\ pattern.isNil) =>
       err.kind \in ConstructionErrors

C8_Witness ==
  /\ call = "generate"
  /\ pc = "done"
  /\ written = <<E_Wmixed, E_D0>>
  /\ err.kind = "parse"
  /\ err.element = E_D0
  /\ pattern.isNil
  /\ draws = 0

RECURSIVE Concat(_)
\* the texts of a sequence one after the other
Concat(texts) ==
  IF texts = <<>> THEN <<>> ELSE Head(texts) \o Concat(Tail(texts))

RECURSIVE SumLen(_)
SumLen(texts) ==
  IF texts = <<>> THEN 0 ELSE Len(Head(texts)) + SumLen(Tail(texts))

\* the tokens were invoked in sequence order, each once, up to the k-th
InvokedInOrder == invoked = [i \in 1..Len(invoked) |-> i]

\* parts holds a text of each of the first tokens, in order
PartsAreTokenTexts ==
  /\ Len(parts) <= Len(pattern.Tokens)
  /\ \A i \in 1..Len(parts) :
       \E o \in TokenGenerate(pattern.Tokens[i]) : o.ok /\ o.text = parts[i]

\* Pattern.Generate returned a text: every token was invoked, in order, and
\* the text is the concatenation of the tokens' texts
ReturnedConcatenation ==
  pc = "returned" =>
    /\ InvokedInOrder
    /\ Len(invoked) = Len(pattern.Tokens)
    /\ Len(parts) = Len(pattern.Tokens)
    /\ PartsAreTokenTexts
    /\ passphrase = Concat(parts)
    /\ Len(passphrase) = SumLen(parts)

\* Pattern.Generate failed at a token: the tokens up to it were invoked, in
\* order, none after it, no text is returned and the error carries the
\* descriptor of the failing token
FailedAtFirstFailingToken ==
  /\ InvokedInOrder
  /\ Len(invoked) >= 1
  /\ Len(invoked) = Len(parts) + 1
  /\ PartsAreTokenTexts
  /\ passphrase = <<>>
  /\ err.kind = "token"
  /\ err.descriptor = TokenType(pattern.Tokens[Len(invoked)])

\* Pattern.Generate has failed (and Generator.Generate may have returned since)
GenerateFailed == pc = "failed" \/ (pc = "done" /\ err.kind \in {"token", "empty"})

C10_MixedNeverAllLower ==
  (/\ call = "casing"
   /\ pc = "done"
   /\ caseStyle = CaseMixed
   /\ err = NoError
   /\ \E i \in 1..Len(caseWord) : IsLetter(caseWord[i]))
  => cased # ToLower(caseWord)

(***************************************************************************)
(* EntropyCalculator: the analysis of an existing passphrase.              *)
(***************************************************************************)
digitCharsetSize == 10

letterCharsetSize == 26

symbolCharsetSize == 32

spaceCharsetSize == 1

minSequenceLength == 3

minRepetitionLength == 3

\* the penalties, in millionths of a bit: 2.0, 3.0, 1.5 and 8.0
sequencePenaltyMultiplier == 2000000

repetitionPenaltyMultiplier == 3000000

dictionaryPenaltyMultiplier == 1500000

yearPatternPenalty == 8000000

CharsetInfo(name, size, chars) == [Name |-> name, Size |-> size, Chars |-> chars]

DigitCharset == CharsetInfo("digits", digitCharsetSize, Digits)

LowerCharset == CharsetInfo("lowercase", letterCharsetSize, LowerLetters)

UpperCharset == CharsetInfo("uppercase", letterCharsetSize, UpperLetters)

SymbolCharset == CharsetInfo("symbols", symbolCharsetSize, DefaultSymbolCharset)

SpaceCharset == CharsetInfo("space", spaceCharsetSize, <<" ">>)

\* unicode.IsLower, unicode.IsUpper, unicode.IsSpace
IsLower(r) == r \in Range(LowerLetters)

IsUpper(r) == r \in Range(UpperLetters)

IsSpace(r) == r \in WhiteSpace

\* unicode.IsSymbol on the characters of the model: the ASCII characters of
\* the categories Sc, Sk and Sm
IsSymbol(r) == r \in {"$", "+", "<", "=", ">", "^", "U+0060", "|", "~"}

\* unicode.IsPunct on the characters of the model: the other ASCII
\* characters that are no letter, digit or space
IsPunct(r) ==
  /\ r \in Range(Ascii)
  /\ ~IsDigit(r) /\ ~IsLower(r) /\ ~IsUpper(r) /\ r # " " /\ ~IsSymbol(r)

\* the case of the switch of detectCharsets a rune takes
CharsetCase(r) ==
  IF IsDigit(r) THEN "digits"
  ELSE IF IsLower(r) THEN "lowercase"
  ELSE IF IsUpper(r) THEN "uppercase"
  ELSE IF IsSpace(r) THEN "space"
  ELSE IF IsPunct(r) \/ IsSymbol(r) THEN "symbols"
  ELSE "none"

\* detectCharsets with a count of the distinct characters as the size of
\* each charset
detectCharsets_DistinctCharacters(str) ==
  LET has(name) == \E i \in 1..Len(str) : CharsetCase(str[i]) = name
      distinct(name) == Cardinality({str[i] : i \in {j \in 1..Len(str) : CharsetCase(str[j]) = name}})
  IN (IF has("digits") THEN <<CharsetInfo("digits", distinct("digits"), Digits)>> ELSE <<>>)
     \o (IF has("lowercase") THEN <<CharsetInfo("lowercase", distinct("lowercase"), LowerLetters)>> ELSE <<>>)
     \o (IF has("uppercase") THEN <<CharsetInfo("uppercase", distinct("uppercase"), UpperLetters)>> ELSE <<>>)
     \o (IF has("symbols") THEN <<CharsetInfo("symbols", distinct("symbols"), DefaultSymbolCharset)>> ELSE <<>>)
     \o (IF has("space") THEN <<CharsetInfo("space", distinct("space"), <<" ">>)>> ELSE <<>>)

\* detectCharsets: the loop over the runes sets the five flags, then the
\* charsets of the flags that are set are appended in this order
detectCharsets(str) ==
  LET has(name) == \E i \in 1..Len(str) : CharsetCase(str[i]) = name
  IN (IF has("digits") THEN <<DigitCharset>> ELSE <<>>)
     \o (IF has("lowercase") THEN <<LowerCharset>> ELSE <<>>)
     \o (IF has("uppercase") THEN <<UpperCharset>> ELSE <<>>)
     \o (IF has("symbols") THEN <<SymbolCharset>> ELSE <<>>)
     \o (IF has("space") THEN <<SpaceCharset>> ELSE <<>>)

RECURSIVE calculateCharsetSize(_)
calculateCharsetSize(charsets) ==
  IF charsets = <<>> THEN 0
  ELSE Head(charsets).Size + calculateCharsetSize(Tail(charsets))

charsetNames(charsets) == [i \in 1..Len(charsets) |-> charsets[i].Name]

PatternMatch(type, position, length, penalty) ==
  [Type |-> type, Position |-> position, Length |-> length, Penalty |-> penalty]

\* the bytes of a string are b[1], ..., b[Len(b)]; the byte the code calls
\* str[i] is b[i + 1]
RECURSIVE SequenceLengthFrom(_, _, _)
SequenceLengthFrom(b, pos, length) ==
  IF pos + length < Len(b) /\ b[pos + length + 1] = (b[pos + length] + 1) % 256
    THEN SequenceLengthFrom(b, pos, length + 1)
    ELSE length

\* getSequenceLength
getSequenceLength(b, pos) ==
  IF pos + minSequenceLength - 1 >= Len(b) THEN 0
  ELSE SequenceLengthFrom(b, pos, minSequenceLength - 1)

RECURSIVE SequentialFrom(_, _)
SequentialFrom(b, i) ==
  IF ~(i < Len(b) - minSequenceLength + 1) THEN <<>>
  ELSE LET seqLen == getSequenceLength(b, i)
       IN IF seqLen >= minSequenceLength
            THEN <<PatternMatch("sequential", i, seqLen,
                                seqLen * sequencePenaltyMultiplier)>>
                 \o SequentialFrom(b, i + seqLen)
            ELSE SequentialFrom(b, i + 1)

\* findSequentialPatterns
findSequentialPatterns(str) == SequentialFrom(Bytes(str), 0)

RECURSIVE RepetitionEnd(_, _, _)
\* for j < len(str) && str[j] == str[i] { j++ }
RepetitionEnd(b, i, j) ==
  IF j < Len(b) /\ b[j + 1] = b[i + 1] THEN RepetitionEnd(b, i, j + 1) ELSE j

RECURSIVE RepetitionFrom(_, _)
RepetitionFrom(b, i) ==
  IF ~(i < Len(b) - minRepetitionLength + 1) THEN <<>>
  ELSE IF b[i + 1] = b[i + 2] /\ b[i + 2] = b[i + minRepetitionLength]
    THEN LET j == RepetitionEnd(b, i, i + minRepetitionLength - 1)
         IN <<PatternMatch("repetition", i, j - i,
                           (j - i - 1) * repetitionPenaltyMultiplier)>>
            \o RepetitionFrom(b, j)
    ELSE RepetitionFrom(b, i + 1)

\* findRepetitionPatterns
findRepetitionPatterns(str) == RepetitionFrom(Bytes(str), 0)

commonWords ==
  << <<"p","a","s","s","w","o","r","d">>, <<"a","d","m","i","n">>,
     <<"u","s","e","r">>, <<"l","o","g","i","n">>,
     <<"w","e","l","c","o","m","e">>, <<"h","e","l","l","o">>,
     <<"w","o","r","l","d">>, <<"t","e","s","t">>, <<"d","e","m","o">>,
     <<"s","a","m","p","l","e">>, <<"t","h","e">>, <<"a","n","d">>,
     <<"y","o","u">>, <<"t","h","a","t">>, <<"w","a","s">>,
     <<"f","o","r">>, <<"a","r","e">> >>

\* whether the bytes w occur in b at byte offset i
OccursAt(b, w, i) == i + Len(w) <= Len(b) /\ SubSeq(b, i + 1, i + Len(w)) = w

\* strings.Index on bytes: the offset of the first occurrence, or -1
Index(b, w) ==
  IF \E i \in 0..Len(b) : OccursAt(b, w, i)
    THEN CHOOSE i \in 0..Len(b) :
           OccursAt(b, w, i) /\ \A j \in 0..(i - 1) : ~OccursAt(b, w, j)
    ELSE -1

RECURSIVE DictionaryFrom(_, _)
DictionaryFrom(lower, words) ==
  IF words = <<>> THEN <<>>
  ELSE LET word == Bytes(Head(words))
           idx == Index(lower, word)
       IN (IF idx # -1
             THEN <<PatternMatch("dictionary", idx, Len(word),
                                 Len(word) * dictionaryPenaltyMultiplier)>>
             ELSE <<>>)
          \o DictionaryFrom(lower, Tail(words))

\* findDictionaryPatterns
findDictionaryPatterns(str) == DictionaryFrom(Bytes(ToLower(str)), commonWords)

\* \w of the regular expression: [0-9A-Za-z_]
IsWordByte(c) == c \in (48..57) \cup (65..90) \cup (97..122) \cup {95}

\* \b at byte offset p: exactly one of the bytes before and after is a \w
WordBoundary(b, p) ==
  (p > 0 /\ IsWordByte(b[p])) # (p < Len(b) /\ IsWordByte(b[p + 1]))

\* \b(19|20)\d{2}\b matches at byte offset i
YearAt(b, i) ==
  /\ i + 4 <= Len(b)
  /\ WordBoundary(b, i)
  /\ \/ b[i + 1] = 49 /\ b[i + 2] = 57
     \/ b[i + 1] = 50 /\ b[i + 2] = 48
  /\ b[i + 3] \in 48..57
  /\ b[i + 4] \in 48..57
  /\ WordBoundary(b, i + 4)

RECURSIVE DatesFrom(_, _)
\* FindAllStringIndex: leftmost matches, the search resumes after a match
DatesFrom(b, i) ==
  IF i + 4 > Len(b) THEN <<>>
  ELSE IF YearAt(b, i)
    THEN <<PatternMatch("date", i, 4, yearPatternPenalty)>> \o DatesFrom(b, i + 4)
    ELSE DatesFrom(b, i + 1)

\* findDatePatterns
findDatePatterns(str) == DatesFrom(Bytes(str), 0)

\* detectPatterns
detectPatterns(str) ==
  findSequentialPatterns(str) \o findRepetitionPatterns(str)
    \o findDictionaryPatterns(str) \o findDatePatterns(str)

RECURSIVE SumPenalty(_)
SumPenalty(patterns) ==
  IF patterns = <<>> THEN 0 ELSE Head(patterns).Penalty + SumPenalty(Tail(patterns))

\* a float64 that is either a number of millionths of a bit or -Inf
Float(negInf, bits) == [negInf |-> negInf, bits |-> bits]

\* float64(len(passphrase)) * math.Log2(float64(charsetSize)); math.Log2(0)
\* is -Inf
BaseEntropy(text, charsetSize) ==
  IF charsetSize = 0 THEN Float(TRUE, 0)
  ELSE Float(FALSE, ByteLen(text) * Log2(charsetSize))

\* applyPatternPenalties without the floor at zero
applyPatternPenalties_NoFloor(baseEntropy, patterns) ==
  IF baseEntropy.negInf THEN 0
  ELSE baseEntropy.bits - SumPenalty(patterns)

\* applyPatternPenalties
applyPatternPenalties(baseEntropy, patterns) ==
  IF baseEntropy.negInf THEN 0
  ELSE IF baseEntropy.bits - SumPenalty(patterns) < 0 THEN 0
  ELSE baseEntropy.bits - SumPenalty(patterns)

\* the word detection constants; the ratios 0.6 and 0.7 and the average
\* word length 5.5 are kept in tenths
minWordLikeRatio == 6

minLetterRatio == 7

avgWordLength == 55

minWordLength == 2

maxWordLength == 15

\* hasAlternatingCase
hasAlternatingCase(str) ==
  /\ \E i \in 1..Len(str) : IsUpper(str[i])
  /\ \E i \in 1..Len(str) : IsLower(str[i])

\* isWordLike that takes a segment of exactly 70% letters as a word
isWordLike_AtLeastRatio(str) ==
  IF ByteLen(str) < minWordLength \/ ByteLen(str) > maxWordLength THEN FALSE
  ELSE 10 * Cardinality({i \in 1..Len(str) : IsLetter(str[i])})
         >= minLetterRatio * ByteLen(str)

\* isWordLike: float64(letterCount)/float64(len(str)) > 0.7, len(str) being
\* the number of bytes and letterCount the number of runes that are letters
isWordLike(str) ==
  IF ByteLen(str) < minWordLength \/ ByteLen(str) > maxWordLength THEN FALSE
  ELSE 10 * Cardinality({i \in 1..Len(str) : IsLetter(str[i])})
         > minLetterRatio * ByteLen(str)

\* the number of word-like parts
WordLikeCount(split) == Cardinality({i \in 1..Len(split) : isWordLike(split[i])})

\* looksLikeWordPattern; sep is a one-character string or the empty one
looksLikeWordPattern(str, sep) ==
  IF sep = <<>> THEN hasAlternatingCase(str)
  ELSE LET split == Split(str, sep[1])
       IN IF Len(split) < minWordsRequired THEN FALSE
          ELSE 10 * WordLikeCount(split) > minWordLikeRatio * Len(split)

\* estimateConcatenatedWords: int(float64(len(str)) / 5.5), at least 1
estimateConcatenatedWords(str) ==
  IF (10 * ByteLen(str)) \div avgWordLength < 1 THEN 1
  ELSE (10 * ByteLen(str)) \div avgWordLength

\* countWords
countWords(str, sep) ==
  IF sep = <<>> THEN estimateConcatenatedWords(str)
  ELSE WordLikeCount(Split(str, sep[1]))

separators == << <<"-">>, <<"_">>, <<".">>, <<" ">>, <<>> >>

RECURSIVE WordStructureFrom(_, _)
\* the loop of analyzeWordStructure over the separators
WordStructureFrom(str, seps) ==
  IF seps = <<>> THEN [wordBased |-> FALSE, words |-> 0]
  ELSE IF looksLikeWordPattern(str, Head(seps))
    THEN [wordBased |-> TRUE, words |-> countWords(str, Head(seps))]
    ELSE WordStructureFrom(str, Tail(seps))

\* analyzeWordStructure
analyzeWordStructure(str) == WordStructureFrom(str, separators)

\* CalculateEntropy
CalculateEntropy(text) ==
  IF text = <<>>
    THEN [Passphrase |-> <<>>, Length |-> 0, Entropy |-> 0, CharsetSize |-> 0,
          Charsets |-> <<>>, Strength |-> "None", CrackTime |-> "Instant",
          Patterns |-> <<>>, WordBased |-> FALSE, EstimatedWords |-> 0]
    ELSE LET charsets == detectCharsets(text)
             charsetSize == calculateCharsetSize(charsets)
             patterns == detectPatterns(text)
             adjustedEntropy ==
               applyPatternPenalties(BaseEntropy(text, charsetSize), patterns)
         IN [Passphrase |-> text, Length |-> ByteLen(text),
             Entropy |-> adjustedEntropy, CharsetSize |-> charsetSize,
             Charsets |-> charsetNames(charsets),
             Strength |-> calculateStrength(adjustedEntropy),
             CrackTime |-> estimateCrackTime(adjustedEntropy),
             Patterns |-> patterns,
             WordBased |-> analyzeWordStructure(text).wordBased,
             EstimatedWords |-> analyzeWordStructure(text).words]

\* Model.calculateStrength of the TUI
Model_calculateStrength(entropy) ==
  CASE entropy < Bits(WeakEntropyThreshold) -> "Weak"
    [] entropy >= Bits(WeakEntropyThreshold)
         /\ entropy < Bits(OkayEntropyThreshold) -> "Okay"
    [] entropy >= Bits(OkayEntropyThreshold)
         /\ entropy < Bits(StrongEntropyThreshold) -> "Strong"
    [] OTHER -> "Excellent"

(***************************************************************************)
(* CalculateEntropy and the two calculateStrength called directly: one     *)
(* call per behaviour.                                                     *)
(***************************************************************************)
\* the characters of the passphrases analysed: lower-case letters, digits,
\* an upper-case letter, a punctuation character, a space and a letter of
\* three bytes that has no case
AnalysisAlphabet == {"a", "b", "c", "1", "2", "A", "-", " ", "U+4E2D"}

\* the pieces longer passphrases are composed of
ChunkPool ==
  { <<"t","e","s","t">>, <<"T","e","s","t">>, <<"t","h","e">>,
    <<"p","a","s","s">>, <<"2","0","2","3">>, <<"1","9","9","9">>,
    <<"x","-">>, <<"a","b","c">>, <<"1","2","3">>, <<"a","a","a">>,
    <<"1","1","1">> }

\* the parts of the passphrases joined by one of the separators: of two
\* letters, of one, with 7 of 10 characters letters, of mixed case, with
\* another separator inside (4 of 5 letters), and of 16 letters
WordPartPool ==
  { <<"a","b">>, <<"a">>,
    <<"a","b","c","d","e","f","g","1","2","3">>, <<"A","b">>,
    <<"a","b","_","c","d">>,
    <<"a","b","c","d","e","f","g","h","i","j","k","l","m","n","o","p">> }

\* of five parts, three are word-like
ThreeOfFive == <<"a","b","-","a","b","-","a","b","-","1","-","1">>

AnalysisInputs ==
  SeqsUpTo(AnalysisAlphabet, MaxInputLen)
    \cup {Join(cs, <<>>) : cs \in SeqsUpTo(ChunkPool, MaxChunks)}
    \cup {Join(ws, sep) : ws \in SeqsUpTo(WordPartPool, MaxParts),
                          sep \in Range(separators)}
    \cup {ThreeOfFive}

\* the entropies given to calculateStrength: every whole number of bits up
\* to MaxEntropyBits, and a tenth of a bit below each
EntropyPool ==
  {Bits(n) - d : n \in 0..MaxEntropyBits, d \in {0, 100000}}

InitAnalysis ==
  /\ opts = DefaultOptions
  /\ written = <<>>
  /\ defaultSep = <<"-">>
  /\ pattern = NilPattern
  /\ pc = "ready"
  /\ err = NoError
  /\ GenIdle
  /\ CasingIdle
  /\ TuiIdle
  /\ CheckIdle
  /\ analysis = ZeroAnalysis
  /\ strengthOut = ""
  /\ \/ /\ call = "analysis"
        /\ input \in AnalysisInputs
        /\ entropyIn = 0
     \/ /\ call \in {"strength", "status"}
        /\ input = <<>>
        /\ entropyIn \in EntropyPool

\* EntropyCalculator.CalculateEntropy(input)
CalculateEntropyCall ==
  /\ call = "analysis"
  /\ pc = "ready"
  /\ analysis' = CalculateEntropy(input)
  /\ pc' = "done"
  /\ UNCHANGED <<buildVars, err, genVars, casingVars, input, entropyIn, strengthOut, tuiVars, checkVars>>

\* calculateStrength(entropyIn) of the generation engine
CalculateStrengthCall ==
  /\ call = "strength"
  /\ pc = "ready"
  /\ strengthOut' = calculateStrength(entropyIn)
  /\ pc' = "done"
  /\ UNCHANGED <<buildVars, err, genVars, casingVars, input, analysis, entropyIn, tuiVars, checkVars>>

\* Model.calculateStrength(entropyIn) of the TUI, shown on its status line
ModelCalculateStrengthCall ==
  /\ call = "status"
  /\ pc = "ready"
  /\ strengthOut' = Model_calculateStrength(entropyIn)
  /\ pc' = "done"
  /\ UNCHANGED <<buildVars, err, genVars, casingVars, input, analysis, entropyIn, tuiVars, checkVars>>

NextAnalysis ==
  \/ CalculateEntropyCall
  \/ CalculateStrengthCall
  \/ ModelCalculateStrengthCall

SpecAnalysis == InitAnalysis /\ [][NextAnalysis]_vars

(***************************************************************************)
(* The interactive model (package tui).  Model.Update has a value          *)
(* receiver: each handler works on a copy of the Model and returns it, and *)
(* the copy shares the columns slice with the Model it was copied from, so *)
(* what a handler writes into a column before it fails is in the Model     *)
(* returned.  The display fields (masked, showHelp, width, height, help,   *)
(* styles) and the keys that only touch them are left out.                 *)
(***************************************************************************)
maxWords == 10

maxDigits == 5

maxSymbols == 5

minWords == 1

minDigits == 0

minSymbols == 0

defaultWords == 4

\* Model.separators
TuiSeparators == << <<"-">>, <<"_">>, <<".">>, <<" ">>, <<>> >>

\* the words of the dictionary in the order of its list
DictList == << <<"a","b">>, <<"c">> >>

\* Column{Token, Value, Locked, Focused}
Column(token, value, locked, isFocused) ==
  [Token |-> token, Value |-> value, Locked |-> locked, Focused |-> isFocused]

\* rand.Int(max = n) in a call whose reads all return the same end of the
\* range: 0, or n - 1 when high
Read(n, high) == IF high THEN n - 1 ELSE 0

\* Token.Generate when no read fails, every read returning the same end
Drawn(t, high) ==
  CASE t.kind = "word" ->
         LET w == DictList[Read(Len(DictList), high) + 1]
         IN IF t.casing = CaseLower THEN ToLower(w)
            ELSE IF t.casing = CaseUpper THEN ToUpper(w)
            ELSE IF t.casing = CaseTitle THEN TitleCase(w)
            ELSE applyMixedCase(w, [i \in LetterPositions(w) |-> Read(2, high)])
    [] t.kind = "digit" -> [i \in 1..t.count |-> Digits[Read(10, high) + 1]]
    [] t.kind = "symbol" ->
         [i \in 1..t.count |-> t.charset[Read(Len(t.charset), high) + 1]]
    [] t.kind = "sep" -> t.value

\* what a method of *Model leaves: the Model, and whether a read of the
\* random source failed
Left(mdl, failed) == [m |-> mdl, failed |-> failed]

\* the one element of a set of one
Only(S) == CHOOSE x \in S : TRUE

\* the end of generatePassphrase, cols being the columns after the loop:
\* an error leaves the passphrase, the entropy and the strength as they were
Regenerated(mdl, cols, failAt) ==
  IF failAt # 0 THEN Left([mdl EXCEPT !.columns = cols], TRUE)
  ELSE Only({Left([mdl EXCEPT !.columns = cols,
                              !.passphrase = Join([i \in 1..Len(cols) |-> cols[i].Value], <<>>),
                              !.entropy = e,
                              !.strength = Model_calculateStrength(e)],
                  FALSE) : e \in {PatternEntropyBits(mdl.pattern)}})

\* generatePassphrase that regenerates every column, locked or not
generatePassphrase_IgnoreLocks(mdl, high, failAt) ==
  Only({Regenerated(old, [i \in 1..Len(old.columns) |->
                            IF failAt = 0 \/ i < failAt
                              THEN [old.columns[i] EXCEPT
                                      !.Value = Drawn(old.columns[i].Token, high)]
                              ELSE old.columns[i]],
                    failAt) : old \in {mdl}})

\* generatePassphrase; failAt is the column whose Token.Generate fails, 0
\* when none does
generatePassphrase(mdl, high, failAt) ==
  Only({Regenerated(old, [i \in 1..Len(old.columns) |->
                            IF ~old.columns[i].Locked /\ (failAt = 0 \/ i < failAt)
                              THEN [old.columns[i] EXCEPT
                                      !.Value = Drawn(old.columns[i].Token, high)]
                              ELSE old.columns[i]],
                    failAt) : old \in {mdl}})

\* toggleColumnLock; index counts from 0
toggleColumnLock(mdl, index) ==
  IF index >= 0 /\ index < Len(mdl.columns)
    THEN [mdl EXCEPT !.columns[index + 1].Locked = ~mdl.columns[index + 1].Locked]
    ELSE mdl

\* moveFocus that stops at the ends instead of wrapping around
moveFocus_NoWrap(mdl, direction) ==
  IF Len(mdl.columns) = 0 THEN mdl
  ELSE LET moved == mdl.focused + direction
       IN [mdl EXCEPT !.columns =
                        [i \in 1..Len(mdl.columns) |->
                           [mdl.columns[i] EXCEPT !.Focused =
                              IF i = moved + 1 THEN TRUE
                              ELSE IF i = mdl.focused + 1 THEN FALSE
                              ELSE mdl.columns[i].Focused]],
                     !.focused = moved]

\* moveFocus
moveFocus(mdl, direction) ==
  IF Len(mdl.columns) = 0 THEN mdl
  ELSE LET moved == mdl.focused + direction
           next == IF moved < 0 THEN Len(mdl.columns) - 1
                   ELSE IF moved >= Len(mdl.columns) THEN 0
                   ELSE moved
       IN [mdl EXCEPT !.columns =
                        [i \in 1..Len(mdl.columns) |->
                           [mdl.columns[i] EXCEPT !.Focused =
                              IF i = next + 1 THEN TRUE
                              ELSE IF i = mdl.focused + 1 THEN FALSE
                              ELSE mdl.columns[i].Focused]],
                     !.focused = next]

\* the columns regeneratePattern makes from the tokens of the new pattern
ColumnsOf(tokens, focus) ==
  [i \in 1..Len(tokens) |-> Column(tokens[i], <<>>, FALSE, i - 1 = focus)]

\* the end of regeneratePattern, built being what BuildFromOptions returned;
\* with its error the Model is left as it is
Rebuilt(mdl, built, high, failAt) ==
  IF built.err # NoError THEN Left(mdl, FALSE)
  ELSE Only({generatePassphrase(
               [mdl EXCEPT !.pattern = built.pattern,
                           !.columns = IF mdl.focused < Len(cols) \/ Len(cols) = 0
                                         THEN cols
                                         ELSE [cols EXCEPT ![1].Focused = TRUE],
                           !.focused = IF mdl.focused < Len(cols) THEN mdl.focused ELSE 0],
               high, failAt) : cols \in {ColumnsOf(built.pattern.Tokens, mdl.focused)}})

\* regeneratePattern
regeneratePattern(mdl, high, failAt) ==
  Only({Rebuilt(old, BuildFromOptions(TuiSeparators[old.currentSep + 1],
                                      old.words, old.digits, old.symbols,
                                      Lit(old.casing),
                                      TuiSeparators[old.currentSep + 1],
                                      FALSE, FALSE, FALSE),
                high, failAt) : old \in {mdl}})

\* cycleSeparator that keeps the pattern and the columns it has
cycleSeparator_KeepPattern(mdl, high, failAt) ==
  generatePassphrase(
    [mdl EXCEPT !.currentSep = (mdl.currentSep + 1) % Len(TuiSeparators)],
    high, failAt)

\* cycleSeparator
cycleSeparator(mdl, high, failAt) ==
  regeneratePattern(
    [mdl EXCEPT !.currentSep = (mdl.currentSep + 1) % Len(TuiSeparators)],
    high, failAt)

\* cycleCasing
cycleCasing(mdl, high, failAt) ==
  regeneratePattern(
    [mdl EXCEPT !.casing = CASE mdl.casing = CaseLower -> CaseUpper
                             [] mdl.casing = CaseUpper -> CaseTitle
                             [] mdl.casing = CaseTitle -> CaseMixed
                             [] mdl.casing = CaseMixed -> CaseLower],
    high, failAt)

\* the new count of adjustWords, adjustDigits and adjustSymbols
Clamp(n, lowest, highest) ==
  IF n < lowest THEN lowest ELSE IF n > highest THEN highest ELSE n

\* adjustWords without the lower limit
adjustWords_NoLowerLimit(mdl, delta, high, failAt) ==
  regeneratePattern(
    [mdl EXCEPT !.words = IF mdl.words + delta > maxWords THEN maxWords
                          ELSE mdl.words + delta],
    high, failAt)

\* adjustWords
adjustWords(mdl, delta, high, failAt) ==
  regeneratePattern([mdl EXCEPT !.words = Clamp(mdl.words + delta, minWords, maxWords)],
                    high, failAt)

\* adjustDigits
adjustDigits(mdl, delta, high, failAt) ==
  regeneratePattern([mdl EXCEPT !.digits = Clamp(mdl.digits + delta, minDigits, maxDigits)],
                    high, failAt)

\* adjustSymbols
adjustSymbols(mdl, delta, high, failAt) ==
  regeneratePattern([mdl EXCEPT !.symbols = Clamp(mdl.symbols + delta, minSymbols, maxSymbols)],
                    high, failAt)

\* unlockAll
unlockAll(mdl) ==
  [mdl EXCEPT !.columns = [i \in 1..Len(mdl.columns) |->
                             [mdl.columns[i] EXCEPT !.Locked = FALSE]]]

\* handleUniversalDecrease
handleUniversalDecrease(mdl, high, failAt) ==
  CASE mdl.words > 1 -> adjustWords(mdl, -1, high, failAt)
    [] mdl.words <= 1 /\ mdl.digits > 0 -> adjustDigits(mdl, -1, high, failAt)
    [] mdl.words <= 1 /\ mdl.digits <= 0 /\ mdl.symbols > 0 ->
         adjustSymbols(mdl, -1, high, failAt)
    [] OTHER -> Left(mdl, FALSE)

\* NewModel before its first generatePassphrase
NewModelFields ==
  LET built == BuildFromOptions(<<"-">>, defaultWords, minDigits, minSymbols,
                                Lit(CaseMixed), <<"-">>, FALSE, FALSE, FALSE)
  IN [words |-> defaultWords, digits |-> minDigits, symbols |-> minSymbols,
      casing |-> CaseMixed, currentSep |-> 0,
      pattern |-> built.pattern,
      columns |-> ColumnsOf(built.pattern.Tokens, 0),
      focused |-> 0, passphrase |-> <<>>, entropy |-> 0, strength |-> ""]

(***************************************************************************)
(* The key events of a session of the interactive model.                   *)
(***************************************************************************)
TuiUnits(mdl) == mdl.words + mdl.digits + mdl.symbols

LockedColumns(mdl) == {i \in 1..Len(mdl.columns) : mdl.columns[i].Locked}

\* in how many ways a Model differs from the one NewModel returns: in each
\* of its counts, its separator, its casing, its locks and its focus
Departures(mdl) ==
  (IF mdl.words # defaultWords THEN 1 ELSE 0)
  + (IF mdl.digits # minDigits THEN 1 ELSE 0)
  + (IF mdl.symbols # minSymbols THEN 1 ELSE 0)
  + (IF mdl.currentSep # 0 THEN 1 ELSE 0)
  + (IF mdl.casing # CaseMixed THEN 1 ELSE 0)
  + (IF LockedColumns(mdl) # {} THEN 1 ELSE 0)
  + (IF mdl.focused # 0 THEN 1 ELSE 0)

\* the Models the session goes through: at most MaxDepartures departures
\* from the initial Model; at most SmallUnits words, digits and symbols
\* together unless one count is the only departure; at most MaxLocked
\* columns locked at a time, among the first MaxLockColumn
Explored(mdl) ==
  \E locked \in {LockedColumns(mdl)} :
    /\ Departures(mdl) <= MaxDepartures
    /\ TuiUnits(mdl) > SmallUnits => Departures(mdl) <= 1
    /\ Cardinality(locked) <= MaxLocked
    /\ \A i \in locked : i <= MaxLockColumn

\* the reads of a handler: all succeed and return the same end of the
\* range, or the read for one of the first MaxFailColumn columns fails
DrawChoices ==
  {[high |-> h, failAt |-> 0] : h \in BOOLEAN}
    \cup {[high |-> FALSE, failAt |-> f] : f \in 1..MaxFailColumn}

\* failAt names a column of the Model left whose Token.Generate is invoked
Possible(left, failAt) ==
  IF failAt = 0 THEN ~left.failed
  ELSE /\ left.failed
       /\ failAt <= Len(left.m.columns)
       /\ left.m.columns[failAt].Token.kind # "sep"
       /\ ~left.m.columns[failAt].Locked

\* NewModel returned a Model: no read failed
InitTui ==
  /\ call = "new"
  /\ opts = DefaultOptions
  /\ written = <<>>
  /\ defaultSep = <<"-">>
  /\ pattern = NilPattern
  /\ pc = "ready"
  /\ err = NoError
  /\ GenIdle
  /\ CasingIdle
  /\ AnalysisIdle
  /\ CheckIdle
  /\ \E high \in BOOLEAN : model = generatePassphrase(NewModelFields, high, 0).m
  /\ failures = 0
  /\ quit = FALSE

\* Update returns the Model a handler left
Handled(keyName, left) ==
  /\ ~quit
  /\ failures < MaxFailures
  /\ Explored(left.m)
  /\ model' = left.m
  /\ failures' = IF left.failed THEN failures + 1 ELSE failures
  /\ call' = keyName
  /\ UNCHANGED <<opts, written, defaultSep, pattern, pc, err, genVars,
                 casingVars, analysisVars, quit, checkVars>>

\* a handler that reads the random source
Regenerating(keyName, method(_, _, _)) ==
  \E draw \in DrawChoices :
    \E left \in {method(model, draw.high, draw.failAt)} :
      /\ Possible(left, draw.failAt)
      /\ Handled(keyName, left)

\* a handler that does not
Plain(keyName, mdl) == \E left \in {Left(mdl, FALSE)} : Handled(keyName, left)

\* handleKeyMessage, Quit: cleanup wipes the passphrase
KeyQuit ==
  /\ ~quit
  /\ failures < MaxFailures
  /\ model' = [model EXCEPT !.passphrase = <<>>]
  /\ quit' = TRUE
  /\ call' = "q"
  /\ UNCHANGED <<opts, written, defaultSep, pattern, pc, err, genVars,
                 casingVars, analysisVars, failures, checkVars>>

\* handleActionKeys
KeyGenerate == Regenerating(" ", generatePassphrase)

KeyToggleLock == Plain("enter", toggleColumnLock(model, model.focused))

KeyFocusNext == Plain("tab", moveFocus(model, 1))

KeyFocusPrev == Plain("shift+tab", moveFocus(model, -1))

handleNewAll(mdl, high, failAt) == generatePassphrase(unlockAll(mdl), high, failAt)

KeyNewAll == Regenerating("n", handleNewAll)

\* handleConfigKeys
KeySeparators == Regenerating("s", cycleSeparator)

KeyCycleCasing == Regenerating("ctrl+s", cycleCasing)

\* handleAdjustmentKeys
WordsUp(mdl, high, failAt) == adjustWords(mdl, 1, high, failAt)

WordsDown(mdl, high, failAt) == adjustWords(mdl, -1, high, failAt)

DigitsUp(mdl, high, failAt) == adjustDigits(mdl, 1, high, failAt)

DigitsDown(mdl, high, failAt) == adjustDigits(mdl, -1, high, failAt)

SymbolsUp(mdl, high, failAt) == adjustSymbols(mdl, 1, high, failAt)

SymbolsDown(mdl, high, failAt) == adjustSymbols(mdl, -1, high, failAt)

KeyWordsUp == Regenerating("w", WordsUp)

KeyWordsDown == Regenerating("W", WordsDown)

KeyDigitsUp == Regenerating("d", DigitsUp)

KeyDigitsDown == Regenerating("D", DigitsDown)

KeySymbolsUp == Regenerating("x", SymbolsUp)

KeySymbolsDown == Regenerating("X", SymbolsDown)

KeyIncrease == Regenerating("+", WordsUp)

KeyDecrease == Regenerating("-", handleUniversalDecrease)

\* handleColumnKeys: the key of column number colIndex + 1
KeyColumn ==
  \E colIndex \in 0..8 :
    /\ Len(model.columns) > colIndex
    /\ Plain(<<"1","2","3","4","5","6","7","8","9">>[colIndex + 1],
             toggleColumnLock(model, colIndex))

NextTui ==
  \/ KeyQuit
  \/ KeyGenerate
  \/ KeyToggleLock
  \/ KeyFocusNext
  \/ KeyFocusPrev
  \/ KeyNewAll
  \/ KeySeparators
  \/ KeyCycleCasing
  \/ KeyWordsUp
  \/ KeyWordsDown
  \/ KeyDigitsUp
  \/ KeyDigitsDown
  \/ KeySymbolsUp
  \/ KeySymbolsDown
  \/ KeyIncrease
  \/ KeyDecrease
  \/ KeyColumn

SpecTui == InitTui /\ [][NextTui]_vars

\* ---------------------------------------------------------------------
\* The check command: runCheck starts a goroutine that scans one line from
\* the input stream into passphrase and scanErr and then sends on the
\* buffered channel done; runCheck itself waits in a select for done or for
\* time.After(stdinReadTimeout), and either returns an error or hands the
\* AnalysisResult of passphrase to the formatter. Elapsed time is not
\* measured: the timer may send at any moment after runCheck has reached
\* the select, and the stream may deliver at any moment. The policy lines
\* written to the error stream and the formatting of the result are left
\* out; output is the AnalysisResult handed to the formatter, or the error.
\* ---------------------------------------------------------------------

\* bufio.ScanLines on the delivered data: the text before the first newline
\* without a trailing carriage return; no token when the stream ends with
\* no data
HasToken(data) == data # <<>>

LineEnd(data) ==
  IF "\n" \in Range(data)
  THEN (CHOOSE i \in 1..Len(data) :
          data[i] = "\n" /\ \A j \in 1..(i - 1) : data[j] # "\n") - 1
  ELSE Len(data)

dropCR(line) ==
  IF line # <<>> /\ line[Len(line)] = "\r"
  THEN SubSeq(line, 1, Len(line) - 1)
  ELSE line

ScanLines(data) == dropCR(SubSeq(data, 1, LineEnd(data)))

\* what runCheck returns
CheckFailed(msg) == [kind |-> "error", message |-> msg, analysis |-> ZeroAnalysis]

CheckAnalysed(str) ==
  [kind |-> "analysis", message |-> "", analysis |-> CalculateEntropy(str)]

\* the lines delivered to the check command
LinePool ==
  { <<>>, <<"\n">>, <<" ">>, <<" ", "\n">>,
    <<"a", "b", "\n">>, <<"a", "b">>, <<" ", "a", "b", " ", "\n">>,
    <<"a", "1", "\r", "\n">>, <<"A", "b", "-", "c", "d", "\n", "x", "\n">>,
    <<"1", "2", "3", "\n">>, <<"a", "a", "a">>, <<"\t", "\n">> }

StreamPool ==
  {[kind |-> "data", data |-> d] : d \in LinePool}
    \cup {SilentStream, [kind |-> "broken", data |-> <<>>]}

InitCheck ==
  /\ opts = DefaultOptions
  /\ written = <<>>
  /\ defaultSep = <<"-">>
  /\ pattern = NilPattern
  /\ pc = "ready"
  /\ err = NoError
  /\ GenIdle
  /\ CasingIdle
  /\ AnalysisIdle
  /\ TuiIdle
  /\ call = "check"
  /\ stdin \in StreamPool
  /\ arrived = FALSE
  /\ reader = "idle"
  /\ scanned = <<>>
  /\ scanErr = FALSE
  /\ doneChan = 0
  /\ timer = FALSE
  /\ main = "start"
  /\ output = NoOutput

\* the process runs until runCheck returns
Running == call = "check" /\ main # "returned"

\* the input stream delivers its first line, its end, or its read error
Arrive ==
  /\ Running
  /\ stdin.kind # "silent"
  /\ ~arrived
  /\ arrived' = TRUE
  /\ UNCHANGED <<buildVars, pc, err, genVars, casingVars, analysisVars, tuiVars,
                 stdin, reader, scanned, scanErr, doneChan, timer, main, output>>

\* runCheck: make(chan bool, 1), go func(), and entry of the select, which
\* starts the timer
StartCheck ==
  /\ Running
  /\ main = "start"
  /\ main' = "select"
  /\ reader' = "scan"
  /\ UNCHANGED <<buildVars, pc, err, genVars, casingVars, analysisVars, tuiVars,
                 stdin, arrived, scanned, scanErr, doneChan, timer, output>>

\* goroutine: scanner.Scan() blocks until the stream delivers; then
\* passphrase = strings.TrimSpace(scanner.Text()) and scanErr = scanner.Err()
ReaderScan ==
  /\ Running
  /\ reader = "scan"
  /\ arrived
  /\ scanned' = IF stdin.kind = "data" /\ HasToken(stdin.data)
                THEN TrimSpace(ScanLines(stdin.data))
                ELSE scanned
  /\ scanErr' = (stdin.kind = "broken")
  /\ reader' = "send"
  /\ UNCHANGED <<buildVars, pc, err, genVars, casingVars, analysisVars, tuiVars,
                 stdin, arrived, doneChan, timer, main, output>>

\* goroutine: done <- true
ReaderSend ==
  /\ Running
  /\ reader = "send"
  /\ doneChan' = doneChan + 1
  /\ reader' = "finished"
  /\ UNCHANGED <<buildVars, pc, err, genVars, casingVars, analysisVars, tuiVars,
                 stdin, arrived, scanned, scanErr, timer, main, output>>

\* the channel of time.After(stdinReadTimeout) becomes ready
TimerFires ==
  /\ Running
  /\ main = "select"
  /\ ~timer
  /\ timer' = TRUE
  /\ UNCHANGED <<buildVars, pc, err, genVars, casingVars, analysisVars, tuiVars,
                 stdin, arrived, reader, scanned, scanErr, doneChan, main, output>>

\* runCheck: case <-done, then the analysis of passphrase
ReceiveDone_Result ==
  IF scanErr THEN CheckFailed("reading from stdin")
  ELSE IF scanned = <<>> THEN CheckFailed("no passphrase provided on stdin")
  ELSE CheckAnalysed(scanned)

ReceiveDone ==
  /\ Running
  /\ main = "select"
  /\ doneChan > 0
  /\ doneChan' = doneChan - 1
  /\ output' = ReceiveDone_Result
  /\ main' = "returned"
  /\ UNCHANGED <<buildVars, pc, err, genVars, casingVars, analysisVars, tuiVars,
                 stdin, arrived, reader, scanned, scanErr, timer>>

\* runCheck: case <-time.After(stdinReadTimeout)
ReceiveTimeout ==
  /\ Running
  /\ main = "select"
  /\ timer
  /\ output' = CheckFailed("no input provided on stdin")
  /\ main' = "returned"
  /\ UNCHANGED <<buildVars, pc, err, genVars, casingVars, analysisVars, tuiVars,
                 stdin, arrived, reader, scanned, scanErr, doneChan, timer>>

NextCheck ==
  \/ Arrive
  \/ StartCheck
  \/ ReaderScan
  \/ ReaderSend
  \/ TimerFires
  \/ ReceiveDone
  \/ ReceiveTimeout

SpecCheck == InitCheck /\ [][NextCheck]_vars

\* the stream delivers what was written to it, a runnable goroutine runs,
\* the timer sends after its duration, and a select with a ready case
\* proceeds
FairCheck ==
  /\ WF_vars(Arrive)
  /\ WF_vars(StartCheck)
  /\ WF_vars(ReaderScan)
  /\ WF_vars(ReaderSend)
  /\ WF_vars(TimerFires)
  /\ WF_vars(ReceiveDone \/ ReceiveTimeout)

SpecCheckLive == SpecCheck /\ FairCheck

(***************************************************************************)
(* Symbol and Digit tokens, batches and the policy check.                  *)
(***************************************************************************)
\* the tokens of the pattern that have returned a text, and the ones invoked
Generated == 1..Len(parts)

\* a Symbol token whose charset is the default one: left unset, or set to
\* the default by the builder
DefaultSymbols(t) ==
  t.kind = "symbol" /\ t.charset \in {<<>>, DefaultSymbolCharset}

\* C11 (as claimed): a Symbol token without a caller-supplied charset draws
\* each of its count characters from a fixed default alphabet of exactly 32
\* distinct symbol characters, its entropy is count x log2(32), and its
\* output has exactly count characters.
C11_DefaultAlphabetOf32 ==
  \A k \in Generated :
    DefaultSymbols(pattern.Tokens[k]) =>
      /\ Len(parts[k]) = pattern.Tokens[k].count
      /\ Range(parts[k]) \subseteq Range(DefaultSymbolCharset)
      /\ Cardinality(Range(DefaultSymbolCharset)) = 32
      /\ TokenEntropyBits(pattern.Tokens[k]) = pattern.Tokens[k].count * Log2(32)

\* a Digit or Symbol token whose count is zero or negative
NonPositiveCount(t) == t.kind \in {"digit", "symbol"} /\ t.count <= 0

\* the k-th invoked token failed: it returned no text and Pattern.Generate
\* returned its error
InvocationFailed(k) ==
  /\ Len(parts) < invoked[k]
  /\ err = TokenError(pattern.Tokens[invoked[k]])

\* C12 (as claimed): a token's Generate fails with an error and returns no
\* text whenever its count is <= 0 (Digit or Symbol) or, for a Symbol token,
\* whenever its charset is empty.
C12_EmptyCharsetFails ==
  \A k \in 1..Len(invoked) :
    (\/ NonPositiveCount(pattern.Tokens[invoked[k]])
     \/ /\ pattern.Tokens[invoked[k]].kind = "symbol"
        /\ pattern.Tokens[invoked[k]].charset = <<>>)
    => InvocationFailed(k)

\* the number of passphrases a call of Generator.Generate is to return
AskedResults == IF opts.Count <= 0 THEN 1 ELSE opts.Count

\* C13: Generator.Generate returns either exactly count results (exactly 1
\* when count <= 0) and no error, or an error and no result at all; when the
\* passphrase at some batch position fails, the results of the earlier
\* positions are discarded and no later position is generated.
C13_AllOrNothing ==
  (call = "generate" /\ pc = "done") =>
    \/ /\ err = NoError
       /\ Len(results) = AskedResults
       /\ batch = AskedResults
    \/ /\ err # NoError
       /\ results = <<>>
       /\ batch < AskedResults

C13_Witness ==
  /\ call = "generate"
  /\ pc = "done"
  /\ opts.Count = 2
  /\ batch = 1
  /\ err.kind = "token"
  /\ results = <<>>

\* C15: the PolicyPass of every Result is true exactly when (MinLength <= 0
\* or the passphrase has at least MinLength characters) and (MinEntropy <= 0
\* or the pattern's entropy is at least MinEntropy); a bound that is zero or
\* negative never makes it false.
C15_PolicyPass ==
  \A i \in 1..Len(results) :
    /\ results[i].Entropy = PatternEntropyBits(pattern)
    /\ results[i].PolicyPass <=>
         /\ opts.MinLength <= 0 \/ Len(results[i].Passphrase) >= opts.MinLength
         /\ opts.MinEntropy <= 0 \/ results[i].Entropy >= Bits(opts.MinEntropy)

C15_Witness ==
  /\ Len(results) = 1
  /\ opts.MinLength = 2
  /\ opts.MinEntropy = 1
  /\ results[1].Passphrase = <<"a","b">>
  /\ results[1].Entropy = Bits(1)
  /\ results[1].PolicyPass

(***************************************************************************)
(* The strength label.                                                     *)
(***************************************************************************)
\* the band of an entropy, in millionths of a bit
StrengthBand(e) ==
  IF e < 45000000 THEN "Weak"
  ELSE IF e < 65000000 THEN "Okay"
  ELSE IF e < 80000000 THEN "Strong"
  ELSE "Excellent"

\* the labels of the generation engine and of the TUI are the band
FunctionsAgree ==
  (pc = "done" /\ call \in {"strength", "status"}) =>
    strengthOut = StrengthBand(entropyIn)

\* C14 (as claimed): the strength label is a function of the entropy alone,
\* Weak below 45, Okay from 45, Strong from 65, Excellent from 80, and the
\* generation engine, the analysis engine and the TUI give the same label
\* to the same entropy.
C14_SameLabelEverywhere ==
  /\ FunctionsAgree
  /\ (pc = "done" /\ call = "analysis") =>
       analysis.Strength = StrengthBand(analysis.Entropy)

(***************************************************************************)
(* The analysis of a passphrase: charsets and pattern matches.             *)
(***************************************************************************)
\* a call of CalculateEntropy has returned
Analysed == call = "analysis" /\ pc = "done"

\* the code point of a character
CodePoint(r) ==
  CASE r = "U+4E2D" -> 20013
    [] r = "\t" -> 9
    [] OTHER -> IndexOf(Ascii, r) + 31

\* the five categories, by the code points of their characters, and their
\* sizes
InCategory(cat, r) ==
  CASE cat = "digits" -> CodePoint(r) \in 48..57
    [] cat = "lowercase" -> CodePoint(r) \in 97..122
    [] cat = "uppercase" -> CodePoint(r) \in 65..90
    [] cat = "space" -> CodePoint(r) \in {9, 32}
    [] cat = "symbols" ->
         CodePoint(r) \in (33..47) \cup (58..64) \cup (91..96) \cup (123..126)

CategoryOrder == <<"digits", "lowercase", "uppercase", "symbols", "space">>

CategorySize == <<10, 26, 26, 32, 1>>

\* the categories with at least one character in the input, in order
PresentCategories == {k \in 1..5 : \E i \in 1..Len(input) : InCategory(CategoryOrder[k], input[i])}

RECURSIVE SumSizes(_)
SumSizes(ks) ==
  IF ks = {} THEN 0
  ELSE LET k == CHOOSE x \in ks : TRUE IN CategorySize[k] + SumSizes(ks \ {k})

\* C16: for every non-empty input, each character is in at most one of the
\* categories digit (10), lowercase (26), uppercase (26), symbol or
\* punctuation (32) and space (1); the charsets reported are the categories
\* with at least one character in the input, and the charset size is the sum
\* of their sizes, whatever the number of distinct characters or occurrences.
C16_CharsetSizeIsSumOfPresent ==
  (Analysed /\ input # <<>>) =>
    /\ \A i \in 1..Len(input) :
         Cardinality({k \in 1..5 : InCategory(CategoryOrder[k], input[i])}) <= 1
    /\ analysis.CharsetSize = SumSizes(PresentCategories)
    /\ Range(analysis.Charsets) = {CategoryOrder[k] : k \in PresentCategories}
    /\ Len(analysis.Charsets) = Cardinality(PresentCategories)

C16_Witness ==
  /\ Analysed
  /\ input = <<"a", "a", "b", "1">>
  /\ analysis.CharsetSize = 36
  /\ analysis.Charsets = <<"digits", "lowercase">>

\* the matches of one type, by their indices in Patterns
MatchesOf(type) == {k \in 1..Len(analysis.Patterns) : analysis.Patterns[k].Type = type}

\* the character of the input at the 0-based position p
CharAt(p) == input[p + 1]

\* the characters from position p on, length of them, each one code point
\* above its predecessor
Ascending(p, length) ==
  /\ p >= 0
  /\ p + length <= Len(input)
  /\ \A k \in 1..(length - 1) : CodePoint(CharAt(p + k)) = CodePoint(CharAt(p + k - 1)) + 1

\* the match m covers the positions p, ..., p + length - 1
Covers(m, p, length) == m.Position <= p /\ p + length <= m.Position + m.Length

\* C17 (as claimed): every sequential match covers a substring of length >= 3
\* in which every character, the second included, is one code point above
\* its predecessor; its penalty is 2.0 x its length; sequential matches do
\* not overlap; and every ascending run of length >= 3 of the input is
\* covered by a sequential match.
C17_SequentialMatchesAscend ==
  Analysed =>
    /\ \A k \in MatchesOf("sequential") :
         /\ analysis.Patterns[k].Length >= 3
         /\ Ascending(analysis.Patterns[k].Position, analysis.Patterns[k].Length)
         /\ analysis.Patterns[k].Penalty = 2000000 * analysis.Patterns[k].Length
    /\ \A k \in MatchesOf("sequential"), l \in MatchesOf("sequential") :
         k < l =>
           analysis.Patterns[k].Position + analysis.Patterns[k].Length
             <= analysis.Patterns[l].Position
    /\ \A p \in 0..(Len(input) - 3) :
         Ascending(p, 3) =>
           \E k \in MatchesOf("sequential") : Covers(analysis.Patterns[k], p, 3)

\* the maximal runs of at least three identical characters: (position, length)
IdenticalRun(p, length) ==
  /\ p >= 0
  /\ p + length <= Len(input)
  /\ \A k \in 1..(length - 1) : CharAt(p + k) = CharAt(p)

MaximalRuns ==
  {r \in (0..Len(input)) \X (3..Len(input)) :
     /\ IdenticalRun(r[1], r[2])
     /\ r[1] = 0 \/ CharAt(r[1] - 1) # CharAt(r[1])
     /\ r[1] + r[2] = Len(input) \/ CharAt(r[1] + r[2]) # CharAt(r[1])}

\* C18 (as claimed): there is exactly one repetition match for every maximal
\* run of >= 3 identical characters of the input and none for anything else,
\* its position and length are the run's and its penalty is
\* 3.0 x (length - 1); no sequential match is a run of identical characters.
C18_OneRepetitionPerRun ==
  Analysed =>
    /\ {<<analysis.Patterns[k].Position, analysis.Patterns[k].Length>> :
          k \in MatchesOf("repetition")} = MaximalRuns
    /\ Cardinality(MatchesOf("repetition")) = Cardinality(MaximalRuns)
    /\ \A k \in MatchesOf("repetition") :
         analysis.Patterns[k].Penalty = 3000000 * (analysis.Patterns[k].Length - 1)
    /\ \A k \in MatchesOf("sequential") :
         ~IdenticalRun(analysis.Patterns[k].Position, analysis.Patterns[k].Length)

\* the occurrences of the common words in the input, whatever the case:
\* (word, position)
Occurrences ==
  {o \in (1..Len(commonWords)) \X (0..Len(input)) :
     /\ o[2] + Len(commonWords[o[1]]) <= Len(input)
     /\ ToLower(SubSeq(input, o[2] + 1, o[2] + Len(commonWords[o[1]])))
          = commonWords[o[1]]}

\* C19 (as claimed): every occurrence of a common word in the input,
\* whatever its case, repeated or overlapping, is reported as a dictionary
\* match of its own with penalty 1.5 x the length of the word.
C19_EveryOccurrenceReported ==
  Analysed =>
    /\ \A o \in Occurrences :
         \E k \in MatchesOf("dictionary") :
           /\ analysis.Patterns[k].Position = o[2]
           /\ analysis.Patterns[k].Length = Len(commonWords[o[1]])
           /\ analysis.Patterns[k].Penalty = 1500000 * Len(commonWords[o[1]])
    /\ Cardinality(MatchesOf("dictionary")) = Cardinality(Occurrences)

\* the positions of the 4-digit substrings 19xx and 20xx of the input
YearPositions ==
  {p \in 0..(Len(input) - 4) :
     /\ <<CharAt(p), CharAt(p + 1)>> \in { <<"1", "9">>, <<"2", "0">> }
     /\ CodePoint(CharAt(p + 2)) \in 48..57
     /\ CodePoint(CharAt(p + 3)) \in 48..57}

\* C20 (as claimed): every 4-digit substring 19xx or 20xx of the input is
\* reported as a date match with the flat penalty 8.0, whatever characters
\* are next to it and whatever other matches cover the same digits.
C20_EveryYearReported ==
  Analysed =>
    \A p \in YearPositions :
      \E k \in MatchesOf("date") :
        /\ analysis.Patterns[k].Position = p
        /\ analysis.Patterns[k].Length = 4
        /\ analysis.Patterns[k].Penalty = 8000000

(***************************************************************************)
(* The adjusted entropy.                                                   *)
(***************************************************************************)
RECURSIVE PenaltiesUpTo(_)
\* the penalties of the first n reported matches, added up
PenaltiesUpTo(n) ==
  IF n = 0 THEN 0 ELSE analysis.Patterns[n].Penalty + PenaltiesUpTo(n - 1)

\* the matches the four detectors report for the input, none left out
AllDetectorsReported ==
  Len(analysis.Patterns)
    = Len(findSequentialPatterns(input)) + Len(findRepetitionPatterns(input))
      + Len(findDictionaryPatterns(input)) + Len(findDatePatterns(input))

\* C21: for every input, the entropy of the AnalysisResult is
\* max(0, base entropy - sum of the penalties of all reported matches), the
\* base entropy being length x log2(charset size) and the matches of the
\* four detectors all being counted; it is never negative, and it is 0 when
\* the penalties exceed the base entropy or when no character of the input
\* is in a charset category.
C21_EntropyFlooredAtZero ==
  Analysed =>
    /\ analysis.Entropy >= 0
    /\ AllDetectorsReported
    /\ analysis.CharsetSize = 0 => analysis.Entropy = 0
    /\ analysis.CharsetSize > 0 =>
         LET base == analysis.Length * Log2Table[analysis.CharsetSize]
             total == PenaltiesUpTo(Len(analysis.Patterns))
         IN analysis.Entropy = IF base - total < 0 THEN 0 ELSE base - total

\* "2023": the date penalty 8.0 and the sequential penalty 6.0 on the same
\* digits exceed the base entropy 4 x log2(10)
C21_Witness ==
  /\ Analysed
  /\ input = <<"2", "0", "2", "3">>
  /\ Len(analysis.Patterns) = 2
  /\ PenaltiesUpTo(2) = 14000000
  /\ analysis.Entropy = 0

\* the crack-time label of an entropy, in millionths of a bit
CrackTimeBand(e) ==
  IF e <= 0 THEN "Instant"
  ELSE IF e < 30000000 THEN "Seconds"
  ELSE IF e < 40000000 THEN "Minutes"
  ELSE IF e < 50000000 THEN "Hours"
  ELSE IF e < 60000000 THEN "Days"
  ELSE IF e < 70000000 THEN "Years"
  ELSE IF e < 80000000 THEN "Centuries"
  ELSE "Millennia"

\* C28 (as claimed): for every input, the empty string included, the
\* strength label of the AnalysisResult is the one the strength table gives
\* its adjusted entropy (Weak, Okay, Strong or Excellent) and its crack-time
\* label is the one the crack-time table gives that entropy.
C28_LabelsFollowTables ==
  Analysed =>
    /\ analysis.Strength = StrengthBand(analysis.Entropy)
    /\ analysis.Strength \in {"Weak", "Okay", "Strong", "Excellent"}
    /\ analysis.CrackTime = CrackTimeBand(analysis.Entropy)

\* ---------------------------------------------------------------------
\* C22: the word-structure verdict

\* a part is word-like: its length lies in 2..15 and more than 70% of it
\* are letters
WordLikePart(part) ==
  /\ ByteLen(part) >= 2
  /\ ByteLen(part) <= 15
  /\ 10 * Cardinality({i \in 1..Len(part) : IsLetter(part[i])}) > 7 * ByteLen(part)

WordLikeParts(sepIndex) ==
  LET split == Split(input, separators[sepIndex][1])
  IN Cardinality({i \in 1..Len(split) : WordLikePart(split[i])})

\* separator number 5 is the empty one
Qualifies(sepIndex) ==
  IF sepIndex = 5
    THEN /\ \E i \in 1..Len(input) : input[i] \in Range(UpperLetters)
         /\ \E i \in 1..Len(input) : input[i] \in Range(LowerLetters)
    ELSE LET split == Split(input, separators[sepIndex][1])
         IN /\ Len(split) >= 2
            /\ 10 * WordLikeParts(sepIndex) > 6 * Len(split)

FirstQualifying == CHOOSE i \in 1..5 : Qualifies(i) /\ \A j \in 1..(i - 1) : ~Qualifies(j)

Texts(t) == {o.text : o \in {x \in TokenGenerate(t) : x.ok}}

\* the step is the handling of the key by a Model that has columns
Pressed(keyName) == call' = keyName /\ model.columns # <<>>

\* C23: Space leaves every locked column as it was; when no read fails,
\* every unlocked column holds a text its token generates and the new
\* passphrase is the columns' values in order, the locked ones being the
\* old ones
C23_RegenerateKeepsLocked ==
  [][Pressed(" ") =>
       /\ Len(model'.columns) = Len(model.columns)
       /\ \A i \in 1..Len(model.columns) :
            /\ model'.columns[i].Locked = model.columns[i].Locked
            /\ model'.columns[i].Token = model.columns[i].Token
            /\ model.columns[i].Locked => model'.columns[i].Value = model.columns[i].Value
            /\ (~model.columns[i].Locked /\ failures' = failures)
                 => model'.columns[i].Value \in Texts(model.columns[i].Token)
       /\ failures' = failures =>
            model'.passphrase =
              Join([i \in 1..Len(model.columns) |->
                      IF model.columns[i].Locked THEN model.columns[i].Value
                      ELSE model'.columns[i].Value], <<>>)]_vars

\* after Space the locked first word differs from the second word, which
\* was regenerated
C23_Witness ==
  /\ call = " "
  /\ failures = 0
  /\ model.columns[1].Locked
  /\ ~model.columns[3].Locked
  /\ model.columns[3].Token.kind = "word"
  /\ model.columns[1].Value # model.columns[3].Value
  /\ model.passphrase = Join([i \in 1..Len(model.columns) |-> model.columns[i].Value], <<>>)

\* C24: after the key s every column that was locked is still locked and
\* holds the value it had
C24_SeparatorKeepsLocked ==
  [][Pressed("s") =>
       \A i \in 1..Len(model.columns) :
         model.columns[i].Locked =>
           /\ i <= Len(model'.columns)
           /\ model'.columns[i].Locked
           /\ model'.columns[i].Value = model.columns[i].Value]_vars

\* C25: the counts are within 1..10, 0..5 and 0..5, and the pattern has a
\* token
C25_CountsInRange ==
  model # ZeroModel =>
    /\ model.words >= 1 /\ model.words <= 10
    /\ model.digits >= 0 /\ model.digits <= 5
    /\ model.symbols >= 0 /\ model.symbols <= 5
    /\ model.words + model.digits + model.symbols > 0
    /\ Len(model.pattern.Tokens) > 0

\* the key w or + was handled and there are ten words
C25_Witness ==
  /\ call \in {"w", "+"}
  /\ model.words = 10
  /\ Len(model.columns) = 19

\* the words of the pattern, in order, as column numbers
WordColumns(mdl) ==
  SelectSeq([i \in 1..Len(mdl.columns) |-> i],
            LAMBDA i : mdl.columns[i].Token.kind = "word")

\* C26: with the pattern word-word-word-word the key 2 toggles the lock of
\* the second word and of no other column
C26_KeyTwoLocksSecondWord ==
  [][(Pressed("2") /\ model.words = 4 /\ model.digits = 0 /\ model.symbols = 0
        /\ model.currentSep = 0) =>
       \A i \in 1..Len(model.columns) :
         (model'.columns[i].Locked # model.columns[i].Locked)
           <=> i = WordColumns(model)[2]]_vars

\* C29: the focused index is an index of the column list and the column
\* there is the only one with the Focused flag
C29_FocusValid ==
  model # ZeroModel =>
    /\ model.focused >= 0
    /\ model.focused < Len(model.columns)
    /\ \A i \in 1..Len(model.columns) :
         model.columns[i].Focused <=> i = model.focused + 1

\* the pattern was rebuilt with the focus on the third column
C29_Witness ==
  /\ call = "s"
  /\ model.currentSep = 1
  /\ model.focused = 2
  /\ model.columns[3].Focused
  /\ ~model.columns[1].Focused

Supplied == TrimSpace(ScanLines(stdin.data))

\* a line holding a passphrase is supplied on the input stream
LineSupplied ==
  /\ call = "check"
  /\ stdin.kind = "data"
  /\ HasToken(stdin.data)
  /\ Supplied # <<>>

\* C27 (as claimed): whenever a non-empty line is supplied on the input
\* stream, the check command eventually returns the AnalysisResult of that
\* line, however the reader goroutine, the arrival of the input and the
\* timer interleave.
C27_LineIsAnalysed ==
  LineSupplied ~>
    (main = "returned" /\ output = CheckAnalysed(Supplied))

====
